---- MODULE Spec2Model ----
(***************************************************************************)
(* Slide segmentation of an educational video (SlideDetector.detect_slides *)
(* and the text operations it relies on).                                  *)
(*                                                                         *)
(* A text is a sequence of one-character strings.  Real-valued scores      *)
(* (similarities, confidences) are fixed-point integers in thousandths.    *)
(* Times are integers in milliseconds.                                     *)
(***************************************************************************)
EXTENDS Integers, Sequences, FiniteSets, TLC

(***************************************************************************)
(* Characters and Python string primitives                                 *)
(***************************************************************************)
LowerLetters == {"a", "b", "c", "d", "e", "f", "x", "y",
                 "i", "l", "n", "o", "s", "t", "w", "h", "r"}
UpperLetters == {"A", "B", "O", "S", "T", "D", "E", "H", "L", "R", "W"}
Whitespace == {" ", "\n", "\t"}
DigitChars == {"0", "1", "2", "3", "4", "5", "6", "7", "8", "9"}
\* the characters the pattern \w matches
WordChars == LowerLetters \cup UpperLetters \cup DigitChars
\* the punctuation OCREngine.normalize_text keeps, and symbols it removes
Punctuation == {".", ",", "!", "?", "-"}
Symbols == {":", "+"}
AllChars == WordChars \cup Whitespace \cup Punctuation \cup Symbols

\* str.lower() on one character
LowerChar(c) ==
    CASE c = "A" -> "a" [] c = "B" -> "b" [] c = "O" -> "o"
      [] c = "S" -> "s" [] c = "T" -> "t" [] c = "D" -> "d"
      [] c = "E" -> "e" [] c = "H" -> "h" [] c = "L" -> "l"
      [] c = "R" -> "r" [] c = "W" -> "w" [] OTHER -> c

\* str.lower()
lower(s) == [i \in 1..Len(s) |-> LowerChar(s[i])]

Min2(a, b) == IF a <= b THEN a ELSE b
Max2(a, b) == IF a >= b THEN a ELSE b

\* number of leading characters of s that belong to keep
LeadLen(s, keep) ==
    IF \A i \in 1..Len(s) : s[i] \in keep THEN Len(s)
    ELSE (CHOOSE n \in 1..Len(s) :
              /\ s[n] \notin keep
              /\ \A i \in 1..(n - 1) : s[i] \in keep) - 1

\* number of trailing characters of s that belong to keep
TrailLen(s, keep) ==
    IF \A i \in 1..Len(s) : s[i] \in keep THEN Len(s)
    ELSE Len(s) - (CHOOSE n \in 1..Len(s) :
                       /\ s[n] \notin keep
                       /\ \A i \in (n + 1)..Len(s) : s[i] \in keep)

\* str.strip(): drop leading and trailing whitespace
strip(s) ==
    IF LeadLen(s, Whitespace) = Len(s) THEN <<>>
    ELSE SubSeq(s, LeadLen(s, Whitespace) + 1, Len(s) - TrailLen(s, Whitespace))

\* the maximal runs of characters of s that belong to keep, in order
RECURSIVE Runs(_, _)
Runs(s, keep) ==
    IF s = <<>> THEN <<>>
    ELSE IF Head(s) \notin keep THEN Runs(Tail(s), keep)
    ELSE LET n == LeadLen(s, keep)
         IN  <<SubSeq(s, 1, n)>> \o Runs(SubSeq(s, n + 1, Len(s)), keep)

\* str.split(): the whitespace-separated words
split(s) == Runs(s, AllChars \ Whitespace)

\* set(text.lower().split())
WordSet(s) == {split(lower(s))[i] : i \in 1..Len(split(lower(s)))}

\* "\n".join(lines)
RECURSIVE JoinLines(_)
JoinLines(ls) ==
    IF ls = <<>> THEN <<>>
    ELSE IF Len(ls) = 1 THEN ls[1]
    ELSE ls[1] \o <<"\n">> \o JoinLines(Tail(ls))

\* " ".join(words)
RECURSIVE JoinWords(_)
JoinWords(ws) ==
    IF ws = <<>> THEN <<>>
    ELSE IF Len(ws) = 1 THEN ws[1]
    ELSE ws[1] \o <<" ">> \o JoinWords(Tail(ws))

\* a in b for strings: a is a contiguous substring of b
Contains(b, a) ==
    \E i \in 0..(Len(b) - Len(a)) : SubSeq(b, i + 1, i + Len(a)) = a

(***************************************************************************)
(* OCREngine.clean_text                                                    *)
(***************************************************************************)
\* text.split("\n"), each line stripped, empty lines removed, joined by "\n"
clean_text(text) ==
    LET lines == Runs(text, AllChars \ {"\n"})
        stripped == [i \in 1..Len(lines) |-> strip(lines[i])]
        kept == SelectSeq(stripped, LAMBDA l : l # <<>>)
    IN  JoinLines(kept)

(***************************************************************************)
(* OCREngine.normalize_text                                                *)
(***************************************************************************)
\* the characters the pattern [^a-z0-9\s.,!?-] leaves in place
NormalChars == LowerLetters \cup DigitChars \cup Whitespace \cup Punctuation

\* lowercase, remove the other characters, collapse whitespace to one space
normalize_text(text) ==
    JoinWords(split(SelectSeq(lower(text), LAMBDA c : c \in NormalChars)))

(***************************************************************************)
(* TextComparator                                                          *)
(***************************************************************************)
\* thresholds are written in thousandths: One stands for 1.0
One == 1000

\* one row of the edit-distance table: acc holds columns 0..Len(acc)-1 of the
\* row of character ch, prev is the row above it
RECURSIVE LevRow(_, _, _, _)
LevRow(prev, ch, b, acc) ==
    IF Len(acc) > Len(b) THEN acc
    ELSE LET j == Len(acc)
             cost == IF ch = b[j] THEN 0 ELSE 1
             cell == Min2(Min2(prev[j + 1] + 1, acc[j] + 1), prev[j] + cost)
         IN  LevRow(prev, ch, b, Append(acc, cell))

RECURSIVE LevRows(_, _, _, _)
LevRows(a, b, i, prev) ==
    IF i > Len(a) THEN prev
    ELSE LevRows(a, b, i + 1, LevRow(prev, a[i], b, <<i>>))

\* Levenshtein.distance(a, b): unit-cost insertions, deletions, substitutions
distance(a, b) == LevRows(a, b, 1, [j \in 1..(Len(b) + 1) |-> j - 1])[Len(b) + 1]

\* TfidfVectorizer analyzer: lower-case, then the tokens of two or more word
\* characters (token_pattern \b\w\w+\b)
Tokens(text) == SelectSeq(Runs(lower(text), WordChars), LAMBDA w : Len(w) >= 2)

\* term frequency of token w in a token sequence
Tf(toks, w) == Cardinality({i \in 1..Len(toks) : toks[i] = w})

\* default threshold of is_incremental_slide, in thousandths
IncrementalThreshold == 700

\* variant: the overlap has to exceed the threshold
is_incremental_slide_Strict(text1, text2, threshold) ==
    IF Contains(text2, text1) THEN TRUE
    ELSE LET words1 == WordSet(text1)
             words2 == WordSet(text2)
         IN  IF words1 = {} THEN FALSE
             ELSE One * Cardinality(words1 \cap words2) > threshold * Cardinality(words1)

\* TextComparator.is_incremental_slide
is_incremental_slide(text1, text2, threshold) ==
    IF Contains(text2, text1) THEN TRUE
    ELSE LET words1 == WordSet(text1)
             words2 == WordSet(text2)
         IN  IF words1 = {} THEN FALSE
             ELSE One * Cardinality(words1 \cap words2) >= threshold * Cardinality(words1)

(***************************************************************************)
(* Binary64 arithmetic on non-negative numbers                             *)
(*                                                                         *)
(* The scores of TextComparator are Python floats.  Here they are computed  *)
(* as IEEE-754 doubles, every operation rounded to nearest, ties to even,  *)
(* with no fused multiply-add.                                             *)
(*                                                                         *)
(* A natural number is the sequence of its digits in base 2^15, least      *)
(* significant first, without leading zeros (zero is the empty sequence).  *)
(* A double is [m |-> odd natural, e |-> exponent], standing for m * 2^e   *)
(* with m below 2^53; 0.0 is [m |-> <<>>, e |-> 0].  Only non-negative     *)
(* doubles occur.                                                          *)
(***************************************************************************)
\* number of significant binary digits of a double
Precision == 53

\* binary digits in one digit of a natural number, and the base
LimbBits == 15
Base == 2^LimbBits

\* digits of a natural number of the model
RECURSIVE LimbsOf(_)
LimbsOf(n) == IF n = 0 THEN <<>> ELSE <<n % Base>> \o LimbsOf(n \div Base)

\* drop the zeros above the most significant digit
Trim(a) ==
    IF \A i \in 1..Len(a) : a[i] = 0 THEN <<>>
    ELSE SubSeq(a, 1, CHOOSE i \in 1..Len(a) :
                          a[i] # 0 /\ \A j \in (i + 1)..Len(a) : a[j] = 0)

Limb(a, i) == IF i <= Len(a) THEN a[i] ELSE 0

\* a + b: digit i gets a carry if a digit below it overflows and every digit
\* in between is filled up to Base - 1
BAdd(a, b) ==
    LET n == Max2(Len(a), Len(b))
        t == [i \in 1..(n + 1) |-> Limb(a, i) + Limb(b, i)] \o <<>>
        Carry(i) == \E j \in 1..(i - 1) :
                        t[j] >= Base /\ \A k \in (j + 1)..(i - 1) : t[k] = Base - 1
    IN  IF Len(a) = 0 /\ Len(b) = 0 THEN <<>>
        ELSE Trim([i \in 1..(n + 1) |-> (t[i] + (IF Carry(i) THEN 1 ELSE 0)) % Base] \o <<>>)

\* a >= b: decided by the length, then by the highest digit that differs
BGeq(a, b) ==
    IF Len(a) # Len(b) THEN Len(a) > Len(b)
    ELSE IF a = b THEN TRUE
    ELSE LET i == CHOOSE k \in 1..Len(a) :
                      a[k] # b[k] /\ \A j \in (k + 1)..Len(a) : a[j] = b[j]
         IN  a[i] > b[i]

\* a - b for a >= b: digit i lends one if a digit below it falls short and
\* every digit in between is level
BSub(a, b) ==
    LET Borrow(i) == \E j \in 1..(i - 1) :
                         a[j] < Limb(b, j) /\ \A k \in (j + 1)..(i - 1) : a[k] = Limb(b, k)
    IN  IF Len(a) = 0 \/ Len(b) = 0 THEN a
        ELSE Trim([i \in 1..Len(a) |->
                      (a[i] - Limb(b, i) - (IF Borrow(i) THEN 1 ELSE 0) + Base) % Base] \o <<>>)

\* a times one digit d: the low halves of the digit products plus their high
\* halves one digit up
MulLimb(a, d) ==
    IF Len(a) = 0 \/ d = 0 THEN <<>>
    ELSE BAdd([i \in 1..Len(a) |-> (a[i] * d) % Base] \o <<>>,
              <<0>> \o [i \in 1..Len(a) |-> (a[i] * d) \div Base])

\* a * Base^k
ShiftLimbs(a, k) == IF a = <<>> THEN <<>> ELSE [i \in 1..k |-> 0] \o a

\* a times the digits j, j+1, ... of b
RECURSIVE MulRows(_, _, _)
MulRows(a, b, j) ==
    IF j > Len(b) THEN <<>>
    ELSE BAdd(MulLimb(a, b[j]), ShiftLimbs(MulRows(a, b, j + 1), 1))

BMul(a, b) == IF Len(a) = 0 \/ Len(b) = 0 THEN <<>> ELSE MulRows(a, b, 1)

\* a * 2^k and a \div 2^k
BShl(a, k) == ShiftLimbs(MulLimb(a, 2^(k % LimbBits)), k \div LimbBits)
BShr(a, k) ==
    LET q == k \div LimbBits
        low == 2^(k % LimbBits)
        high == 2^(LimbBits - (k % LimbBits))
    IN  IF Len(a) <= q THEN <<>>
        ELSE Trim([i \in 1..(Len(a) - q) |->
                      (a[q + i] \div low) + (Limb(a, q + i + 1) % low) * high] \o <<>>)

\* number of binary digits of a
BitLen(a) ==
    IF a = <<>> THEN 0
    ELSE LimbBits * (Len(a) - 1)
             + (CHOOSE n \in 1..LimbBits : 2^(n - 1) <= a[Len(a)] /\ a[Len(a)] < 2^n)

\* binary digit p of a, counted from 1 at the least significant
BitAt(a, p) == (Limb(a, ((p - 1) \div LimbBits) + 1) \div 2^((p - 1) % LimbBits)) % 2

\* a % 2^k # 0
LowBitsSet(a, k) ==
    \/ \E i \in 1..(k \div LimbBits) : Limb(a, i) # 0
    \/ Limb(a, (k \div LimbBits) + 1) % 2^(k % LimbBits) # 0

\* number of binary zeros below the least significant one of a # 0
LowZeros(a) ==
    LET i == CHOOSE k \in 1..Len(a) : a[k] # 0 /\ \A j \in 1..(k - 1) : a[j] = 0
    IN  LimbBits * (i - 1) + (CHOOSE n \in 0..(LimbBits - 1) : a[i] % 2^(n + 1) = 2^n)

\* the quotient of the two leading digits of r by the leading digit of b,
\* where r has at most one digit more than b; Base - 1 at most
Guess(r, b) ==
    Min2(Base - 1, (Limb(r, Len(b) + 1) * Base + Limb(r, Len(b))) \div b[Len(b)])

\* the largest digit d <= guess with b * d <= r
RECURSIVE QuotientDigit(_, _, _)
QuotientDigit(r, b, guess) ==
    IF BGeq(r, MulLimb(b, guess)) THEN guess ELSE QuotientDigit(r, b, guess - 1)

\* long division of the digits i, i-1, ... 1 of a by b, r the running
\* remainder and q the quotient digits found; the most significant digit of
\* b is at least Base / 2, so that the quotient of the leading digits
\* overshoots a quotient digit by two at most.  DivStep has the remainder
\* with the next digit of a brought down, DivNext the quotient digit too.
RECURSIVE DivFrom(_, _, _, _, _)
DivNext(a, b, i, r, q, digit) ==
    IF digit = 0 THEN DivFrom(a, b, i - 1, r, <<0>> \o q)
    ELSE DivFrom(a, b, i - 1, BSub(r, MulLimb(b, digit)), <<digit>> \o q)

DivStep(a, b, i, r, q) == DivNext(a, b, i, r, q, QuotientDigit(r, b, Guess(r, b)))

DivFrom(a, b, i, r, q) ==
    IF i = 0 THEN [q |-> q, r |-> r]
    ELSE DivStep(a, b, i, Trim(<<a[i]>> \o r), q)

\* the division of u by v: the digits of u above the lowest
\* Len(u) - Len(v) + 1 are below v and start the remainder
DivAll(u, v) ==
    DivFrom(u, v, Len(u) - Len(v) + 1, SubSeq(u, Len(u) - Len(v) + 2, Len(u)), <<>>)

\* quotient and remainder of a division scaled by 2^shift
Unscaled(d, shift) == [q |-> Trim(d.q), r |-> BShr(d.r, shift)]

\* quotient and remainder of a by b # 0; both are first scaled by the power
\* of two that brings the leading digit of b up to Base / 2
BDivMod(a, b) ==
    LET shift == LimbBits - BitLen(<<b[Len(b)]>>)
    IN  IF Len(a) < Len(b) THEN [q |-> <<>>, r |-> a]
        ELSE Unscaled(DivAll(BShl(a, shift), BShl(b, shift)), shift)

\* Newton's iteration for the integer square root of v > 0 below Base^2,
\* from s at or above it
RECURSIVE ISqrtFrom(_, _)
ISqrtFrom(v, s) == IF v \div s < s THEN ISqrtFrom(v, (s + (v \div s)) \div 2) ELSE s

ISqrt(v) == IF v = 0 THEN 0 ELSE ISqrtFrom(v, Base)

\* (2 * p * Base + d) * d: what the digit d appended to the root p takes
\* from the remainder
Taken(p, d) == MulLimb(<<d>> \o BAdd(p, p), d)

\* the largest digit d <= guess with Taken(p, d) <= r
RECURSIVE RootDigit(_, _, _)
RootDigit(r, p, guess) ==
    IF BGeq(r, Taken(p, guess)) THEN guess ELSE RootDigit(r, p, guess - 1)

\* square root of the digit pairs j, j-1, ... 1 of a, one digit per pair, p
\* the root of the pairs above and r their remainder.  The first digit is the
\* root of the leading pair; a later digit d has 2 * p * Base * d <= r, and
\* is looked for from the quotient of the leading digits of r \div (2 * Base)
\* by the leading digit of p downwards.  SqrtStep has the remainder with the
\* next pair of a brought down, SqrtNext the digit of the root too.
RECURSIVE SqrtFrom(_, _, _, _)
SqrtNext(a, j, p, r, digit) ==
    IF digit = 0 THEN SqrtFrom(a, j - 1, ShiftLimbs(p, 1), r)
    ELSE SqrtFrom(a, j - 1, <<digit>> \o p, BSub(r, Taken(p, digit)))

SqrtStep(a, j, p, r) ==
    SqrtNext(a, j, p, r,
             IF Len(p) = 0 THEN ISqrt(Limb(r, 2) * Base + Limb(r, 1))
             ELSE RootDigit(r, p, Guess(BShr(r, LimbBits + 1), p)))

SqrtFrom(a, j, p, r) ==
    IF j = 0 THEN [r |-> r, s |-> p]
    ELSE SqrtStep(a, j, p, Trim(<<a[2 * j - 1], Limb(a, 2 * j)>> \o r))

\* a root with what it leaves of a
WithRemainder(a, root) == [r |-> BSub(a, BMul(root, root)), s |-> root]

\* integer square root with remainder: the root of a * 4^t \div 2^t, where
\* 4^t brings the leading pair of digits up to Base^2 / 4, so that the
\* leading digit of the root is at least Base / 2
BSqrtRem(a) ==
    LET pairs == (BitLen(a) + 2 * LimbBits - 1) \div (2 * LimbBits)
        t == (2 * LimbBits * pairs - BitLen(a)) \div 2
    IN  IF Len(a) = 0 THEN [r |-> a, s |-> <<>>]
        ELSE WithRemainder(a, BShr(SqrtFrom(BShl(a, 2 * t), pairs, <<>>, <<>>).s, t))

FZero == [m |-> <<>>, e |-> 0]
FOne == [m |-> <<1>>, e |-> 0]

\* the double m * 2^e for an exact m of at most Precision binary digits, z
\* the number of zeros it ends in
Shifted(m, e, z) == [m |-> BShr(m, z), e |-> e + z]

FNorm(m, e) == IF m = <<>> THEN FZero ELSE Shifted(m, e, LowZeros(m))

\* the double top * 2^e, or (top + 1) * 2^e if up
Bumped(top, up, e) == FNorm(IF up THEN BAdd(top, <<1>>) ELSE top, e)

\* the double nearest to (n + fraction) * 2^e, where the fraction is below one
\* and non-zero exactly if sticky, and d is the number of binary digits n has
\* beyond Precision; ties go to the even neighbour
RoundAt(n, sticky, e, d) ==
    Bumped(BShr(n, d),
           d > 0 /\ BitAt(n, d) = 1
                 /\ (sticky \/ LowBitsSet(n, d - 1) \/ BitAt(n, d + 1) = 1),
           e + d)

FRound(n, sticky, e) ==
    IF n = <<>> THEN FZero
    ELSE RoundAt(n, sticky, e, Max2(0, BitLen(n) - Precision))

\* float(n) of a small natural number
FFromNat(n) == FNorm(LimbsOf(n), 0)

\* the double nearest to quotient and remainder, to root and remainder
RoundQuotient(d, e) == FRound(d.q, d.r # <<>>, e)
RoundRoot(d, e) == FRound(d.s, d.r # <<>>, e)

\* the operations start from the operands that need no rounding, which has
\* both operands worked out before the digits of the result are
FMul(x, y) ==
    IF x = FZero \/ y = FZero THEN FZero
    ELSE FRound(BMul(x.m, y.m), FALSE, x.e + y.e)

FAdd(x, y) ==
    LET e == Min2(x.e, y.e)
    IN  IF x = FZero THEN y
        ELSE IF y = FZero THEN x
        ELSE FRound(BAdd(BShl(x.m, x.e - e), BShl(y.m, y.e - e)), FALSE, e)

\* x - y for x >= y
FSub(x, y) ==
    LET e == Min2(x.e, y.e)
    IN  IF x = y THEN FZero
        ELSE IF y = FZero THEN x
        ELSE FRound(BSub(BShl(x.m, x.e - e), BShl(y.m, y.e - e)), FALSE, e)

\* the quotient is computed to at least Precision + 2 binary digits
FDiv(x, y) ==
    LET k == Precision + 2 + BitLen(y.m) - BitLen(x.m)
    IN  IF x = FZero THEN FZero
        ELSE IF y = FOne THEN x
        ELSE RoundQuotient(BDivMod(BShl(x.m, k), y.m), x.e - y.e - k)

\* the root is computed to at least Precision + 2 binary digits, from an
\* even exponent
FSqrt(x) ==
    LET k0 == 2 * (Precision + 2) - BitLen(x.m)
        k == k0 + ((x.e - k0) % 2)
    IN  IF x = FZero THEN FZero
        ELSE RoundRoot(BSqrtRem(BShl(x.m, k)), (x.e - k) \div 2)

\* x < y
FLess(x, y) ==
    IF y.m = <<>> THEN FALSE
    ELSE IF x.m = <<>> THEN TRUE
    ELSE LET e == Min2(x.e, y.e)
             a == BShl(x.m, x.e - e)
             b == BShl(y.m, y.e - e)
         IN  a # b /\ BGeq(b, a)

\* the double a decimal literal of t thousandths denotes: the one nearest to
\* t / 1000
Score(t) == FDiv(FFromNat(t), FFromNat(1000))

\* x / 2
FHalf(x) == IF x.m = <<>> THEN FZero ELSE [m |-> x.m, e |-> x.e - 1]

\* 0.0 + xs[1] + xs[2] + ... added in that order
RECURSIVE FSum(_)
FSum(xs) ==
    IF xs = <<>> THEN FZero
    ELSE FAdd(FSum(SubSeq(xs, 1, Len(xs) - 1)), xs[Len(xs)])

(***************************************************************************)
(* TextComparator in binary64                                              *)
(***************************************************************************)
\* sklearn row_norms: the root of the sum of the squares of a row
row_norm(row) == FSqrt(FSum([i \in 1..Len(row) |-> FMul(row[i], row[i])] \o <<>>))

\* a row divided by its norm, a norm of zero replaced by one.  Appending the
\* empty sequence has every element of a sequence worked out once.
Scaled(row, norm) ==
    IF norm = FZero THEN row
    ELSE [i \in 1..Len(row) |-> FDiv(row[i], norm)] \o <<>>

\* sklearn normalize with norm l2, on one row
l2_normalize(row) == Scaled(row, row_norm(row))

\* the products of two rows over the same columns added up in column order
Dot(x, y) == FSum([i \in 1..Min2(Len(x), Len(y)) |-> FMul(x[i], y[i])] \o <<>>)

\* sklearn cosine_similarity of two rows: both rows normalized, then
\* multiplied
cosine_similarity(x, y) == Dot(l2_normalize(x), l2_normalize(y))

\* the digits and the lower-case letters in code point order
Alphabet == <<"0", "1", "2", "3", "4", "5", "6", "7", "8", "9",
              "a", "b", "c", "d", "e", "f", "h", "i", "l", "n", "o", "r", "s", "t", "w",
              "x", "y">>
Rank(c) == CHOOSE i \in 1..Len(Alphabet) : Alphabet[i] = c

\* u < v for strings
LexLess(u, v) ==
    \E i \in 1..(Min2(Len(u), Len(v)) + 1) :
        /\ \A j \in 1..(i - 1) : u[j] = v[j]
        /\ IF i > Len(u) THEN i <= Len(v)
           ELSE i <= Len(v) /\ Rank(u[i]) < Rank(v[i])

\* sorted(S): the column order of the vocabulary
RECURSIVE SortedTerms(_)
SortedTerms(S) ==
    IF S = {} THEN <<>>
    ELSE LET least == CHOOSE u \in S : \A v \in S \ {u} : LexLess(u, v)
         IN  <<least>> \o SortedTerms(S \ {least})

\* smoothed idf of a term of one of the two documents: log(3 / 2) + 1, the
\* double 1.4054651081081644 = 6329652137158163 * 2^-52
FIdfOneDoc == [m |-> <<26131, 30303, 29475, 179>>, e |-> -52]

\* smoothed idf of a term of both documents: log(3 / 3) + 1
FIdfBoth == FOne

\* TextComparator._word_overlap_similarity
word_overlap_similarity(text1, text2) ==
    LET words1 == WordSet(text1)
        words2 == WordSet(text2)
        intersection == Cardinality(words1 \cap words2)
        union == Cardinality(words1 \cup words2)
    IN  IF words1 = {} /\ words2 = {} THEN FOne
        ELSE IF words1 = {} \/ words2 = {} THEN FZero
        ELSE IF union > 0 THEN FDiv(FFromNat(intersection), FFromNat(union))
        ELSE FZero

\* TfidfVectorizer.fit_transform([text1, text2]): one row per text over the
\* sorted vocabulary, term counts times idf, l2-normalized
fit_transform(text1, text2) ==
    LET toks1 == Tokens(text1)
        toks2 == Tokens(text2)
        v1 == {toks1[i] : i \in 1..Len(toks1)}
        v2 == {toks2[i] : i \in 1..Len(toks2)}
        vocabulary == SortedTerms(v1 \cup v2)
        Idf(w) == IF w \in v1 /\ w \in v2 THEN FIdfBoth ELSE FIdfOneDoc
    IN  [k \in 1..2 |->
            l2_normalize([i \in 1..Len(vocabulary) |->
                             FMul(FFromNat(Tf(IF k = 1 THEN toks1 ELSE toks2, vocabulary[i])),
                                  Idf(vocabulary[i]))] \o <<>>)] \o <<>>

\* cosine_similarity(vectors[0:1], vectors[1:2])[0][0]
CosineOfRows(vectors) == cosine_similarity(vectors[1], vectors[2])

\* TextComparator._tfidf_similarity; the vectorizer raises ValueError on an
\* empty vocabulary, and the handler returns the word overlap
tfidf_similarity(text1, text2) ==
    IF Tokens(text1) = <<>> /\ Tokens(text2) = <<>>
    THEN word_overlap_similarity(text1, text2)
    ELSE CosineOfRows(fit_transform(text1, text2))

\* TextComparator._levenshtein_similarity; 1 - distance / max_len lies in
\* [0, 1], so max(0.0, min(1.0, similarity)) returns it
levenshtein_similarity(text1, text2) ==
    LET t1 == strip(lower(text1))
        t2 == strip(lower(text2))
        max_len == Max2(Len(t1), Len(t2))
    IN  IF max_len = 0 THEN FOne
        ELSE FSub(FOne, FDiv(FFromNat(distance(t1, t2)), FFromNat(max_len)))

\* the score of a method, of the two scores worked out on demand:
\* (levenshtein + tfidf) / 2 for hybrid
ByMethod(method, levenshtein, tfidf) ==
    IF method = "levenshtein" THEN levenshtein
    ELSE IF method = "tfidf" THEN tfidf
    ELSE IF method = "hybrid" THEN FHalf(FAdd(levenshtein, tfidf))
    ELSE "ValueError"

\* variant: without the early return for exactly one empty text
calculate_similarity_OneEmptyUnchecked(text1, text2, method) ==
    IF text1 = <<>> /\ text2 = <<>> THEN FOne
    ELSE ByMethod(method, levenshtein_similarity(text1, text2), tfidf_similarity(text1, text2))

\* TextComparator.calculate_similarity
calculate_similarity(text1, text2, method) ==
    IF text1 = <<>> /\ text2 = <<>> THEN FOne
    ELSE IF text1 = <<>> \/ text2 = <<>> THEN FZero
    ELSE ByMethod(method, levenshtein_similarity(text1, text2), tfidf_similarity(text1, text2))

(***************************************************************************)
(* time_utils.ms_to_timestamp                                              *)
(***************************************************************************)
Digits == <<"0", "1", "2", "3", "4", "5", "6", "7", "8", "9">>

\* decimal digits of a natural number
RECURSIVE Decimal(_)
Decimal(n) == IF n < 10 THEN <<Digits[n + 1]>> ELSE Decimal(n \div 10) \o <<Digits[(n % 10) + 1]>>

\* format specifier 02d
Pad2(n) == IF n < 10 THEN <<"0">> \o Decimal(n) ELSE Decimal(n)

\* variant: the seconds rounded to the nearest instead of truncated
ms_to_timestamp_Rounded(milliseconds) ==
    LET seconds == (milliseconds + 500) \div 1000
        hours == seconds \div 3600
        minutes == (seconds % 3600) \div 60
        secs == seconds % 60
    IN  Pad2(hours) \o <<":">> \o Pad2(minutes) \o <<":">> \o Pad2(secs)

\* HH:MM:SS of a millisecond offset, sub-second part truncated
ms_to_timestamp(milliseconds) ==
    LET seconds == milliseconds \div 1000
        hours == seconds \div 3600
        minutes == (seconds % 3600) \div 60
        secs == seconds % 60
    IN  Pad2(hours) \o <<":">> \o Pad2(minutes) \o <<":">> \o Pad2(secs)

\* str.split(sep) for a one-character separator
RECURSIVE SplitOn(_, _)
SplitOn(s, sep) ==
    IF \A i \in 1..Len(s) : s[i] # sep THEN <<s>>
    ELSE LET n == CHOOSE i \in 1..Len(s) :
                      s[i] = sep /\ \A j \in 1..(i - 1) : s[j] # sep
         IN  <<SubSeq(s, 1, n - 1)>> \o SplitOn(SubSeq(s, n + 1, Len(s)), sep)

\* int() of a non-empty string of decimal digits
RECURSIVE ParseInt(_)
ParseInt(d) ==
    LET last == (CHOOSE i \in 1..10 : Digits[i] = d[Len(d)]) - 1
    IN  IF Len(d) = 1 THEN last
        ELSE 10 * ParseInt(SubSeq(d, 1, Len(d) - 1)) + last

\* milliseconds of an HH:MM:SS timestamp
timestamp_to_ms(timestamp) ==
    LET parts == SplitOn(timestamp, ":")
        hours == ParseInt(parts[1])
        minutes == ParseInt(parts[2])
        seconds == ParseInt(parts[3])
        total_seconds == hours * 3600 + minutes * 60 + seconds
    IN  total_seconds * 1000

(***************************************************************************)
(* Frames: what the image hash and the OCR engine return for each frame    *)
(***************************************************************************)
FrameIds == {"f_ab", "f_grow", "f_xy", "f_abc", "f_abd", "f_AB", "f_dim",
             "f_blank", "f_clash"}

\* the frames of the ten-second two-slide video: two different images of
\* each of its two slides
ScenarioFrames == {"one_p", "one_q", "two_p", "two_q"}
AllFrames == FrameIds \cup ScenarioFrames

SlideOne == <<"S", "l", "i", "d", "e", " ", "O", "n", "e">>
SlideTwo == <<"S", "l", "i", "d", "e", " ", "T", "w", "o">>

\* image_utils.compute_image_hash: str(phash) of the frame
ImageHash ==
    [f \in AllFrames |->
        CASE f = "f_ab" -> "h1" [] f = "f_grow" -> "h2" [] f = "f_xy" -> "h3"
          [] f = "f_abc" -> "h4" [] f = "f_abd" -> "h5" [] f = "f_AB" -> "h6"
          [] f = "f_dim" -> "h7" [] f = "f_blank" -> "h8" [] f = "f_clash" -> "h1"
          [] f = "one_p" -> "g1" [] f = "one_q" -> "g2"
          [] f = "two_p" -> "g3" [] f = "two_q" -> "g4"]

\* pytesseract.image_to_string of the preprocessed frame
OcrString ==
    [f \in AllFrames |->
        CASE f = "f_ab" -> <<"a", "b", "\n">>
          [] f = "f_grow" -> <<"a", "b", "\n", " ", "\n", "c", "d", " ", "e", "f", "\n">>
          [] f = "f_xy" -> <<"x", "y">>
          [] f = "f_abc" -> <<"a", "b", " ", "c">>
          [] f = "f_abd" -> <<"a", "b", " ", "d", " ">>
          [] f = "f_AB" -> <<"A", "B">>
          [] f = "f_dim" -> <<"x", "y">>
          [] f = "f_blank" -> <<" ", "\n">>
          [] f = "f_clash" -> <<"x", "y">>
          [] f \in {"one_p", "one_q"} -> SlideOne \o <<"\n">>
          [] f \in {"two_p", "two_q"} -> SlideTwo \o <<"\n">>]

\* mean of the positive pytesseract word confidences divided by 100, in
\* thousandths; f_abc is a frame whose word confidences average 81.5
OcrConfidence ==
    [f \in AllFrames |->
        CASE f = "f_ab" -> 912 [] f = "f_grow" -> 857 [] f = "f_xy" -> 934
          [] f = "f_abc" -> 815 [] f = "f_abd" -> 783 [] f = "f_AB" -> 748
          [] f = "f_dim" -> 652 [] f = "f_blank" -> 904 [] f = "f_clash" -> 934
          [] f \in ScenarioFrames -> 900]

\* OCREngine.extract_text_with_confidence
extract_text_with_confidence(f) ==
    [text |-> strip(OcrString[f]), confidence |-> OcrConfidence[f]]

\* the cleaned text of each frame (detect_slides, current_text)
CurrentTextOf == [f \in AllFrames |-> clean_text(extract_text_with_confidence(f).text)]

FrameTexts == {CurrentTextOf[f] : f \in AllFrames} \ {<<>>}

\* calculate_similarity and is_incremental_slide tabulated on the texts the
\* frames can produce; combining the table with the empty function has every
\* entry worked out once
SimilarityOf ==
    [a \in FrameTexts \cup {<<>>}, b \in FrameTexts \cup {<<>>} |->
        calculate_similarity(a, b, "hybrid")] @@ <<>>

IncrementalOf ==
    [a \in FrameTexts, b \in FrameTexts |-> is_incremental_slide(a, b, IncrementalThreshold)]

\* the confidences ending in 5 thousandths that round(confidence, 2) rounds
\* up.  The confidence is the double x nearest to c / 1000 (avg_confidence /
\* 100.0): it goes up if x lies above c / 1000, down if x lies below, and to
\* the even hundredth if x is c / 1000 exactly.
TieUp(c, scaled, exact) ==
    IF scaled = exact THEN (c \div 10) % 2 = 1 ELSE BGeq(scaled, exact)

AboveTie(c, x) == TieUp(c, BMul(x.m, LimbsOf(1000)), BShl(LimbsOf(c), 0 - x.e))

RoundsUp == {c \in {10 * k + 5 : k \in 0..99} : AboveTie(c, Score(c))}

\* round(confidence, 2), on thousandths
Round2(c) ==
    LET down == (c \div 10) * 10
    IN  IF c % 10 < 5 THEN down
        ELSE IF c % 10 > 5 THEN down + 10
        ELSE IF c \in RoundsUp THEN down + 10
        ELSE down

(***************************************************************************)
(* SlideDetector                                                           *)
(***************************************************************************)
\* constructor defaults, thresholds in thousandths and seconds
text_similarity_threshold == 750
min_slide_duration == 3
ocr_confidence_threshold == 700

\* the double the default text_similarity_threshold 0.75 denotes
SimilarityThreshold == Score(text_similarity_threshold)

\* longest frame stream explored
MaxFrames == 4

\* spacing of the sampled frames, frame_interval / fps * 1000
Intervals == {1000, 2000, 3500}

None == [none |-> TRUE]
NoHash == "None"
NoFrame == "None"
\* value of the local similarity before its first assignment
Unbound == [unbound |-> TRUE]

VARIABLES
    incremental_merge,  \* SlideDetector.incremental_merge
    interval_ms,        \* milliseconds between two frames of the frame source
    stream_limit,       \* the largest number of frames the frame source yields
    pc,                 \* "loop" while frames are consumed, "done" after return
    frame_count,        \* frames consumed so far
    frame,              \* loop variable: the frame being handled
    timestamp_ms,       \* loop variable: its timestamp
    slides,             \* the output list
    current_slide,      \* the open slide or None
    previous_text,      \* the reference text
    previous_hash,      \* hash of the last frame that was not hash-skipped
    similarity,         \* local of the loop body: the last similarity computed
    is_incremental,     \* local of the loop body: the last incremental verdict
    branch,             \* the branch of the loop body the last frame took
    closed,             \* the slide closed last (at a boundary or at stream end)
    ocr_calls,          \* number of extract_text_with_confidence calls made
    hash_frame,         \* the frame whose hash is previous_hash
    same_ocr,           \* every hash-skipped frame so far had the OCR result of hash_frame
    nofilter            \* the segmenter state of a run without the hash pre-filter

detect_vars ==
    <<incremental_merge, interval_ms, stream_limit, pc, frame_count, frame, timestamp_ms,
      slides, current_slide, previous_text, previous_hash, similarity,
      is_incremental, branch, closed, ocr_calls, hash_frame, same_ocr, nofilter>>

\* SlideDetector.finalize_slides and _remove_duplicate_slides
VARIABLES
    remove_duplicates,  \* SlideDetector.remove_duplicates
    fin_pc,             \* "idle", "fill", "dedup", "returned" or "raised"
    fin_input,          \* the list as it was passed to finalize_slides
    fin_slides,         \* the list finalize_slides works on (updated in place)
    unique_slides,      \* _remove_duplicate_slides: the slides retained so far
    fin_i,              \* _remove_duplicate_slides: slides handled so far
    fin_result          \* the returned list, None before the return

finalize_vars ==
    <<remove_duplicates, fin_pc, fin_input, fin_slides, unique_slides, fin_i, fin_result>>

\* a round trip through ms_to_timestamp and timestamp_to_ms
VARIABLES
    time_pc,            \* "idle", "format", "parse" or "done"
    time_ms,            \* the milliseconds converted
    time_stamp,         \* ms_to_timestamp(time_ms), None before the call
    time_back           \* timestamp_to_ms(time_stamp), None before the call

time_vars == <<time_pc, time_ms, time_stamp, time_back>>

\* a call of TextComparator.calculate_similarity
VARIABLES
    cmp_pc,             \* "idle", "call" or "returned"
    cmp_text1,          \* first argument
    cmp_text2,          \* second argument
    cmp_method,         \* third argument
    cmp_result          \* the returned score, None before the return

compare_vars == <<cmp_pc, cmp_text1, cmp_text2, cmp_method, cmp_result>>

\* a call of TextComparator.is_incremental_slide
VARIABLES
    inc_pc,             \* "idle", "call" or "returned"
    inc_text1,          \* the earlier text
    inc_text2,          \* the later text
    inc_threshold,      \* the threshold, in thousandths
    inc_result          \* the returned boolean, None before the return

incremental_vars == <<inc_pc, inc_text1, inc_text2, inc_threshold, inc_result>>

\* a call of extractor.extract_slides, directly or from run_pipeline
VARIABLES
    ext_pc,             \* "idle", "validate", "open", "construct", "detect",
                        \* "finalize", "save", "except", "returned" or "raised"
    ext_config,         \* the thresholds and the minimum duration passed
    ext_env,            \* what the call finds: file, video, OCR engine, failures
    video_opened,       \* a cv2.VideoCapture has been made for the video
    frames_read,        \* frames read from the video so far
    ocr_attempts,       \* calls of the OCR engine so far
    ext_error,          \* the exception raised, "none" if none
    ext_result,         \* the dictionary returned, None before the return
    pipe_pc,            \* "idle", "start", "extracting", "quizzes", "returned" or "raised"
    slides_result,      \* what run_pipeline.extract_slides returned, None before
    pipe_result         \* the dictionary run_pipeline returned, None before

extract_vars ==
    <<ext_pc, ext_config, ext_env, video_opened, frames_read, ocr_attempts, ext_error,
      ext_result, pipe_pc, slides_result, pipe_result>>

\* a call of OCREngine.normalize_text
VARIABLES
    norm_pc,            \* "idle", "call" or "returned"
    norm_text,          \* the argument
    norm_result         \* the returned text, None before the return

normalize_vars == <<norm_pc, norm_text, norm_result>>

\* _remove_duplicate_slides applied to a list and then to what it returned
VARIABLES
    twice_pc,           \* "idle", "first", "second", "returned" or "raised"
    twice_input,        \* the list passed to the first call
    twice_first,        \* what the first call returned, None before
    twice_second        \* what the second call returned, None before

twice_vars == <<twice_pc, twice_input, twice_first, twice_second>>

\* the calls outside detect_slides and finalize_slides
call_vars == <<incremental_vars, extract_vars, normalize_vars, twice_vars>>

post_vars == <<finalize_vars, time_vars, compare_vars, call_vars>>

vars == <<detect_vars, post_vars>>

\* SlideDetector._create_slide_entry
create_slide_entry(f, t, text, confidence) ==
    [frame |-> f,
     start_time_ms |-> t,
     end_time_ms |-> t,
     start_time |-> ms_to_timestamp(t),
     end_time |-> ms_to_timestamp(t),
     extracted_text |-> text,
     ocr_confidence |-> Round2(confidence)]

\* variant: the duration in milliseconds compared with the minimum in seconds
LongEnough_Millis(slide) ==
    slide.end_time_ms - slide.start_time_ms >= min_slide_duration

\* the minimum-duration check: (end_time_ms - start_time_ms) / 1000 >= min_slide_duration
LongEnough(slide) ==
    slide.end_time_ms - slide.start_time_ms >= 1000 * min_slide_duration

\* variant: no frame is ever skipped
HashSkipped_Never(prev_hash, f) == FALSE

\* the hash pre-filter test of detect_slides
HashSkipped(prev_hash, f) == prev_hash # NoHash /\ ImageHash[f] = prev_hash

\* variant: the confidence is not looked at
LowQuality_TextOnly(f) == CurrentTextOf[f] = <<>>

\* the OCR gate of detect_slides
LowQuality(f) ==
    \/ extract_text_with_confidence(f).confidence < ocr_confidence_threshold
    \/ CurrentTextOf[f] = <<>>

\* variant: is_incremental_slide is consulted whatever incremental_merge says
IsIncremental_MergeIgnored(merge, prev_text, text) == IncrementalOf[prev_text, text]

\* is_incremental as detect_slides computes it
IsIncremental(merge, prev_text, text) == merge /\ IncrementalOf[prev_text, text]

\* variant: the incremental verdict is not consulted
NewSlideDetected_SimOnly(merge, prev_text, text) ==
    FLess(SimilarityOf[prev_text, text], SimilarityThreshold)

\* the new-slide test of detect_slides
NewSlideDetected(merge, prev_text, text) ==
    /\ FLess(SimilarityOf[prev_text, text], SimilarityThreshold)
    /\ ~IsIncremental(merge, prev_text, text)

\* variant: the lengths are not compared
MoreComplete_AnyLength(merge, prev_text, text) == IsIncremental(merge, prev_text, text)

\* the test for adopting the text of an incremental frame
MoreComplete(merge, prev_text, text) ==
    IsIncremental(merge, prev_text, text) /\ Len(text) > Len(prev_text)

\* variant: the start time is written instead of the end time
Extend_Start(slide, t) == IF slide # None THEN [slide EXCEPT !.start_time_ms = t] ELSE slide

\* the open slide with its end time moved to t, None staying None
Extend(slide, t) == IF slide # None THEN [slide EXCEPT !.end_time_ms = t] ELSE slide

\* variant: the closed slide is stored over the last output slide
CloseInto_Overwrite(out, slide, t) ==
    IF slide # None
    THEN IF LongEnough(Extend(slide, t))
         THEN IF out # <<>>
              THEN [out EXCEPT ![Len(out)] = Extend(slide, t)]
              ELSE Append(out, Extend(slide, t))
         ELSE out
    ELSE out

\* variant: every closed slide is appended
CloseInto_NoGate(out, slide, t) ==
    IF slide # None THEN Append(out, Extend(slide, t)) ELSE out

\* the output list after closing the open slide at time t
CloseInto(out, slide, t) ==
    IF slide # None
    THEN IF LongEnough(Extend(slide, t)) THEN Append(out, Extend(slide, t)) ELSE out
    ELSE out

\* one iteration of the loop body from the OCR call on, on the state
\* st = [slides, current_slide, previous_text]
OcrAndDecide(st, merge, f, t) ==
    LET current_text == CurrentTextOf[f]
        confidence == extract_text_with_confidence(f).confidence
    IN  IF LowQuality(f)
        THEN [st EXCEPT !.current_slide = Extend(st.current_slide, t)]
        ELSE IF st.previous_text = <<>>
        THEN [st EXCEPT !.current_slide = create_slide_entry(f, t, current_text, confidence),
                        !.previous_text = current_text]
        ELSE IF NewSlideDetected(merge, st.previous_text, current_text)
        THEN [slides |-> CloseInto(st.slides, st.current_slide, t),
              current_slide |-> create_slide_entry(f, t, current_text, confidence),
              previous_text |-> current_text]
        ELSE IF st.current_slide # None
        THEN IF MoreComplete(merge, st.previous_text, current_text)
             THEN [st EXCEPT !.current_slide =
                                 [Extend(st.current_slide, t) EXCEPT
                                     !.extracted_text = current_text, !.frame = f],
                             !.previous_text = current_text]
             ELSE [st EXCEPT !.current_slide = Extend(st.current_slide, t)]
        ELSE st

\* the final-slide step after the loop, on the same state
AddFinal(st) ==
    IF st.current_slide # None /\ LongEnough(st.current_slide)
    THEN Append(st.slides, st.current_slide)
    ELSE st.slides

\* finalize_slides has not been called
FinalizeIdle ==
    /\ remove_duplicates = TRUE
    /\ fin_pc = "idle"
    /\ fin_input = <<>>
    /\ fin_slides = <<>>
    /\ unique_slides = <<>>
    /\ fin_i = 0
    /\ fin_result = None

\* no conversion of a timestamp is under way
TimeIdle ==
    /\ time_pc = "idle"
    /\ time_ms = 0
    /\ time_stamp = None
    /\ time_back = None

\* calculate_similarity has not been called
CompareIdle ==
    /\ cmp_pc = "idle"
    /\ cmp_text1 = <<>>
    /\ cmp_text2 = <<>>
    /\ cmp_method = "hybrid"
    /\ cmp_result = None

\* is_incremental_slide has not been called
IncrementalIdle ==
    /\ inc_pc = "idle"
    /\ inc_text1 = <<>>
    /\ inc_text2 = <<>>
    /\ inc_threshold = IncrementalThreshold
    /\ inc_result = None

\* the parameters run_pipeline.extract_slides passes or leaves at their defaults
DefaultConfig ==
    [text_similarity_threshold |-> text_similarity_threshold,
     min_slide_duration |-> min_slide_duration,
     ocr_confidence_threshold |-> ocr_confidence_threshold]

\* a video that exists, can be read and is processed without a failure
SoundEnv ==
    [video_exists |-> TRUE, extension_ok |-> TRUE, video_readable |-> TRUE,
     tesseract_found |-> TRUE, detect_raises |-> FALSE, finalize_raises |-> FALSE,
     transcribe_raises |-> FALSE, skip_extraction |-> FALSE, interval_ms |-> 1000]

\* extract_slides has not been called
ExtractIdle ==
    /\ ext_pc = "idle"
    /\ ext_config = DefaultConfig
    /\ ext_env = SoundEnv
    /\ video_opened = FALSE
    /\ frames_read = 0
    /\ ocr_attempts = 0
    /\ ext_error = "none"
    /\ ext_result = None
    /\ pipe_pc = "idle"
    /\ slides_result = None
    /\ pipe_result = None

\* normalize_text has not been called
NormalizeIdle ==
    /\ norm_pc = "idle"
    /\ norm_text = <<>>
    /\ norm_result = None

\* _remove_duplicate_slides has not been called on its own
TwiceIdle ==
    /\ twice_pc = "idle"
    /\ twice_input = <<>>
    /\ twice_first = None
    /\ twice_second = None

CallsIdle == IncrementalIdle /\ ExtractIdle /\ NormalizeIdle /\ TwiceIdle

PostIdle == FinalizeIdle /\ TimeIdle /\ CompareIdle /\ CallsIdle

Init ==
    /\ PostIdle
    /\ incremental_merge \in BOOLEAN
    /\ interval_ms \in Intervals
    /\ stream_limit = MaxFrames
    /\ pc = "loop"
    /\ frame_count = 0
    /\ frame = NoFrame
    /\ timestamp_ms = 0
    /\ slides = <<>>
    /\ current_slide = None
    /\ previous_text = <<>>
    /\ previous_hash = NoHash
    /\ similarity = Unbound
    /\ is_incremental = FALSE
    /\ branch = "start"
    /\ closed = None
    /\ ocr_calls = 0
    /\ hash_frame = NoFrame
    /\ same_ocr = TRUE
    /\ nofilter = [slides |-> <<>>, current_slide |-> None, previous_text |-> <<>>]

\* variant: the timestamp is computed from the count after its increment
NextFrame_OneBased(f) ==
    /\ pc = "loop"
    /\ frame_count < stream_limit
    /\ frame_count' = frame_count + 1
    /\ frame' = f
    /\ timestamp_ms' = (frame_count + 1) * interval_ms
    /\ nofilter' = OcrAndDecide(nofilter, incremental_merge, f, (frame_count + 1) * interval_ms)
    /\ UNCHANGED <<incremental_merge, interval_ms, stream_limit, pc, post_vars>>

\* VideoProcessor.extract_frames yields the next frame: frame number
\* frame_count of the sampled stream, at frame_count * interval_ms
NextFrame(f) ==
    /\ pc = "loop"
    /\ frame_count < stream_limit
    /\ frame_count' = frame_count + 1
    /\ frame' = f
    /\ timestamp_ms' = frame_count * interval_ms
    /\ nofilter' = OcrAndDecide(nofilter, incremental_merge, f, frame_count * interval_ms)
    /\ UNCHANGED <<incremental_merge, interval_ms, stream_limit, pc, post_vars>>

\* variant: a skipped frame does not extend the open slide
HashSkip_NoExtend(f) ==
    /\ NextFrame(f)
    /\ HashSkipped(previous_hash, f)
    /\ branch' = "hash_skip"
    /\ same_ocr' = (same_ocr /\ extract_text_with_confidence(f) = extract_text_with_confidence(hash_frame))
    /\ UNCHANGED <<slides, current_slide, previous_text, previous_hash, similarity,
                   is_incremental, closed, ocr_calls, hash_frame>>

\* the frame has the hash of the last frame that was not skipped: no OCR
HashSkip(f) ==
    /\ NextFrame(f)
    /\ HashSkipped(previous_hash, f)
    /\ current_slide' = Extend(current_slide, timestamp_ms')
    /\ branch' = "hash_skip"
    /\ same_ocr' = (same_ocr /\ extract_text_with_confidence(f) = extract_text_with_confidence(hash_frame))
    /\ UNCHANGED <<slides, previous_text, previous_hash, similarity, is_incremental,
                   closed, ocr_calls, hash_frame>>

\* variant: a rejected frame does not extend the open slide
NoiseFrame_NoExtend(f) ==
    /\ NextFrame(f)
    /\ ~HashSkipped(previous_hash, f)
    /\ LowQuality(f)
    /\ previous_hash' = ImageHash[f]
    /\ hash_frame' = f
    /\ ocr_calls' = ocr_calls + 1
    /\ branch' = "noise"
    /\ UNCHANGED <<slides, current_slide, previous_text, similarity, is_incremental,
                   closed, same_ocr>>

\* low OCR confidence or no text
NoiseFrame(f) ==
    /\ NextFrame(f)
    /\ ~HashSkipped(previous_hash, f)
    /\ LowQuality(f)
    /\ previous_hash' = ImageHash[f]
    /\ hash_frame' = f
    /\ ocr_calls' = ocr_calls + 1
    /\ current_slide' = Extend(current_slide, timestamp_ms')
    /\ branch' = "noise"
    /\ UNCHANGED <<slides, previous_text, similarity, is_incremental, closed, same_ocr>>

\* the first accepted frame opens the first slide
FirstSlide(f) ==
    /\ NextFrame(f)
    /\ ~HashSkipped(previous_hash, f)
    /\ ~LowQuality(f)
    /\ previous_text = <<>>
    /\ previous_hash' = ImageHash[f]
    /\ hash_frame' = f
    /\ ocr_calls' = ocr_calls + 1
    /\ current_slide' = create_slide_entry(f, timestamp_ms', CurrentTextOf[f],
                                           extract_text_with_confidence(f).confidence)
    /\ previous_text' = CurrentTextOf[f]
    /\ branch' = "first"
    /\ UNCHANGED <<slides, similarity, is_incremental, closed, same_ocr>>

\* variant: after a slide too short to be kept no slide is open
Boundary_ShortToIdle(f) ==
    /\ NextFrame(f)
    /\ ~HashSkipped(previous_hash, f)
    /\ ~LowQuality(f)
    /\ previous_text # <<>>
    /\ NewSlideDetected(incremental_merge, previous_text, CurrentTextOf[f])
    /\ previous_hash' = ImageHash[f]
    /\ hash_frame' = f
    /\ ocr_calls' = ocr_calls + 1
    /\ similarity' = SimilarityOf[previous_text, CurrentTextOf[f]]
    /\ is_incremental' = IsIncremental(incremental_merge, previous_text, CurrentTextOf[f])
    /\ slides' = CloseInto(slides, current_slide, timestamp_ms')
    /\ closed' = Extend(current_slide, timestamp_ms')
    /\ IF LongEnough(Extend(current_slide, timestamp_ms'))
       THEN /\ current_slide' = create_slide_entry(f, timestamp_ms', CurrentTextOf[f],
                                                   extract_text_with_confidence(f).confidence)
            /\ previous_text' = CurrentTextOf[f]
       ELSE /\ current_slide' = None
            /\ previous_text' = <<>>
    /\ branch' = "boundary"
    /\ UNCHANGED same_ocr

\* variant: the new slide is anchored at the start of the slide it replaces
Boundary_StaleStart(f) ==
    /\ NextFrame(f)
    /\ ~HashSkipped(previous_hash, f)
    /\ ~LowQuality(f)
    /\ previous_text # <<>>
    /\ NewSlideDetected(incremental_merge, previous_text, CurrentTextOf[f])
    /\ previous_hash' = ImageHash[f]
    /\ hash_frame' = f
    /\ ocr_calls' = ocr_calls + 1
    /\ similarity' = SimilarityOf[previous_text, CurrentTextOf[f]]
    /\ is_incremental' = IsIncremental(incremental_merge, previous_text, CurrentTextOf[f])
    /\ slides' = CloseInto(slides, current_slide, timestamp_ms')
    /\ closed' = Extend(current_slide, timestamp_ms')
    /\ current_slide' = create_slide_entry(f, current_slide.start_time_ms, CurrentTextOf[f],
                                           extract_text_with_confidence(f).confidence)
    /\ previous_text' = CurrentTextOf[f]
    /\ branch' = "boundary"
    /\ UNCHANGED same_ocr

\* an accepted frame that starts a new slide
Boundary(f) ==
    /\ NextFrame(f)
    /\ ~HashSkipped(previous_hash, f)
    /\ ~LowQuality(f)
    /\ previous_text # <<>>
    /\ NewSlideDetected(incremental_merge, previous_text, CurrentTextOf[f])
    /\ previous_hash' = ImageHash[f]
    /\ hash_frame' = f
    /\ ocr_calls' = ocr_calls + 1
    /\ similarity' = SimilarityOf[previous_text, CurrentTextOf[f]]
    /\ is_incremental' = IsIncremental(incremental_merge, previous_text, CurrentTextOf[f])
    /\ slides' = CloseInto(slides, current_slide, timestamp_ms')
    /\ closed' = Extend(current_slide, timestamp_ms')
    /\ current_slide' = create_slide_entry(f, timestamp_ms', CurrentTextOf[f],
                                           extract_text_with_confidence(f).confidence)
    /\ previous_text' = CurrentTextOf[f]
    /\ branch' = "boundary"
    /\ UNCHANGED same_ocr

\* variant: the reference text follows the text of the latest accepted frame
ContinueSlide_TracksLatest(f) ==
    /\ NextFrame(f)
    /\ ~HashSkipped(previous_hash, f)
    /\ ~LowQuality(f)
    /\ previous_text # <<>>
    /\ ~NewSlideDetected(incremental_merge, previous_text, CurrentTextOf[f])
    /\ previous_hash' = ImageHash[f]
    /\ hash_frame' = f
    /\ ocr_calls' = ocr_calls + 1
    /\ similarity' = SimilarityOf[previous_text, CurrentTextOf[f]]
    /\ is_incremental' = IsIncremental(incremental_merge, previous_text, CurrentTextOf[f])
    /\ current_slide' =
           IF MoreComplete(incremental_merge, previous_text, CurrentTextOf[f])
           THEN [Extend(current_slide, timestamp_ms') EXCEPT
                    !.extracted_text = CurrentTextOf[f], !.frame = f]
           ELSE Extend(current_slide, timestamp_ms')
    /\ previous_text' = CurrentTextOf[f]
    /\ branch' = "continue"
    /\ UNCHANGED <<slides, closed, same_ocr>>

\* an accepted frame that belongs to the open slide
ContinueSlide(f) ==
    /\ NextFrame(f)
    /\ ~HashSkipped(previous_hash, f)
    /\ ~LowQuality(f)
    /\ previous_text # <<>>
    /\ ~NewSlideDetected(incremental_merge, previous_text, CurrentTextOf[f])
    /\ previous_hash' = ImageHash[f]
    /\ hash_frame' = f
    /\ ocr_calls' = ocr_calls + 1
    /\ similarity' = SimilarityOf[previous_text, CurrentTextOf[f]]
    /\ is_incremental' = IsIncremental(incremental_merge, previous_text, CurrentTextOf[f])
    /\ IF current_slide # None
       THEN IF MoreComplete(incremental_merge, previous_text, CurrentTextOf[f])
            THEN /\ current_slide' = [Extend(current_slide, timestamp_ms') EXCEPT
                                         !.extracted_text = CurrentTextOf[f],
                                         !.frame = f]
                 /\ previous_text' = CurrentTextOf[f]
            ELSE /\ current_slide' = Extend(current_slide, timestamp_ms')
                 /\ previous_text' = previous_text
       ELSE UNCHANGED <<current_slide, previous_text>>
    /\ branch' = "continue"
    /\ UNCHANGED <<slides, closed, same_ocr>>

\* variant: the final slide is added whatever its duration
EndOfStream_NoGate ==
    /\ pc = "loop"
    /\ pc' = "done"
    /\ slides' = IF current_slide # None
                 THEN Append(slides, current_slide)
                 ELSE slides
    /\ nofilter' = [nofilter EXCEPT !.slides = AddFinal(nofilter)]
    /\ branch' = "end"
    /\ closed' = current_slide
    /\ UNCHANGED <<incremental_merge, interval_ms, stream_limit, frame_count, frame, timestamp_ms,
                   current_slide, previous_text, previous_hash, similarity,
                   is_incremental, ocr_calls, hash_frame, same_ocr, post_vars>>

\* the frame source is exhausted: add the final slide and return
EndOfStream ==
    /\ pc = "loop"
    /\ pc' = "done"
    /\ slides' = IF current_slide # None /\ LongEnough(current_slide)
                 THEN Append(slides, current_slide)
                 ELSE slides
    /\ nofilter' = [nofilter EXCEPT !.slides = AddFinal(nofilter)]
    /\ branch' = "end"
    /\ closed' = current_slide
    /\ UNCHANGED <<incremental_merge, interval_ms, stream_limit, frame_count, frame, timestamp_ms,
                   current_slide, previous_text, previous_hash, similarity,
                   is_incremental, ocr_calls, hash_frame, same_ocr, post_vars>>

Next ==
    \/ \E f \in FrameIds : HashSkip(f)
    \/ \E f \in FrameIds : NoiseFrame(f)
    \/ \E f \in FrameIds : FirstSlide(f)
    \/ \E f \in FrameIds : Boundary(f)
    \/ \E f \in FrameIds : ContinueSlide(f)
    \/ EndOfStream

Spec == Init /\ [][Next]_vars

(***************************************************************************)
(* The ten-second video: frames at 1 fps, five of the first slide followed *)
(* by five of the second                                                   *)
(***************************************************************************)
ScenarioLength == 10
ScenarioInterval == 1000

\* the images the video can show as its frame number k
ScenarioFrameAt(k) == IF k < 5 THEN {"one_p", "one_q"} ELSE {"two_p", "two_q"}

ScenarioInit ==
    /\ PostIdle
    /\ incremental_merge \in BOOLEAN
    /\ interval_ms = ScenarioInterval
    /\ stream_limit = ScenarioLength
    /\ pc = "loop"
    /\ frame_count = 0
    /\ frame = NoFrame
    /\ timestamp_ms = 0
    /\ slides = <<>>
    /\ current_slide = None
    /\ previous_text = <<>>
    /\ previous_hash = NoHash
    /\ similarity = Unbound
    /\ is_incremental = FALSE
    /\ branch = "start"
    /\ closed = None
    /\ ocr_calls = 0
    /\ hash_frame = NoFrame
    /\ same_ocr = TRUE
    /\ nofilter = [slides |-> <<>>, current_slide |-> None, previous_text |-> <<>>]

ScenarioEnd == frame_count = ScenarioLength /\ EndOfStream

ScenarioNext ==
    \/ \E f \in ScenarioFrameAt(frame_count) : HashSkip(f)
    \/ \E f \in ScenarioFrameAt(frame_count) : FirstSlide(f)
    \/ \E f \in ScenarioFrameAt(frame_count) : Boundary(f)
    \/ \E f \in ScenarioFrameAt(frame_count) : ContinueSlide(f)
    \/ ScenarioEnd

SpecScenario == ScenarioInit /\ [][ScenarioNext]_vars

(***************************************************************************)
(* SlideDetector.finalize_slides                                           *)
(***************************************************************************)
\* detect_slides is not running
DetectIdle ==
    /\ incremental_merge = TRUE
    /\ interval_ms = 1000
    /\ stream_limit = 0
    /\ pc = "idle"
    /\ frame_count = 0
    /\ frame = NoFrame
    /\ timestamp_ms = 0
    /\ slides = <<>>
    /\ current_slide = None
    /\ previous_text = <<>>
    /\ previous_hash = NoHash
    /\ similarity = Unbound
    /\ is_incremental = FALSE
    /\ branch = "start"
    /\ closed = None
    /\ ocr_calls = 0
    /\ hash_frame = NoFrame
    /\ same_ocr = TRUE
    /\ nofilter = [slides |-> <<>>, current_slide |-> None, previous_text |-> <<>>]

\* the longest list passed to finalize_slides
MaxSlides == 3

\* texts of the closed slides: "ab", "AB:", "ab!", "a  b", "xy"
SlideTexts == {<<"a", "b">>, <<"A", "B", ":">>, <<"a", "b", "!">>,
               <<"a", " ", " ", "b">>, <<"x", "y">>}

\* start of the first slide and lengths of the slides, in milliseconds
FirstStarts == {0, 3598000}
SlideLengths == {3000, 4500}

\* the closed slides detect_slides hands over: each opened by
\* _create_slide_entry where its predecessor ended, end_time_ms advanced since
RECURSIVE ClosedSlides(_, _, _)
ClosedSlides(texts, lengths, start) ==
    IF texts = <<>> THEN <<>>
    ELSE <<[create_slide_entry("f_ab", start, Head(texts), 900)
               EXCEPT !.end_time_ms = start + Head(lengths)]>>
         \o ClosedSlides(Tail(texts), Tail(lengths), start + Head(lengths))

\* variant: the duration in whole seconds
fill_in_WholeSeconds(slide) ==
    [k \in DOMAIN slide \cup {"duration"} |->
        CASE k = "end_time" -> ms_to_timestamp(slide.end_time_ms)
          [] k = "duration" ->
                 1000 * ((slide.end_time_ms - slide.start_time_ms) \div 1000)
          [] OTHER -> slide[k]]

\* the body of the loop of finalize_slides; duration in thousandths of a second
fill_in(slide) ==
    [k \in DOMAIN slide \cup {"duration"} |->
        CASE k = "end_time" -> ms_to_timestamp(slide.end_time_ms)
          [] k = "duration" -> slide.end_time_ms - slide.start_time_ms
          [] OTHER -> slide[k]]

FinalizeInit ==
    /\ DetectIdle /\ TimeIdle /\ CompareIdle /\ CallsIdle
    /\ remove_duplicates \in BOOLEAN
    /\ fin_pc = "fill"
    /\ \E n \in 0..MaxSlides, start \in FirstStarts :
           \E texts \in [1..n -> SlideTexts], lengths \in [1..n -> SlideLengths] :
               fin_input = ClosedSlides(texts, lengths, start)
    /\ fin_slides = fin_input
    /\ unique_slides = <<>>
    /\ fin_i = 0
    /\ fin_result = None

\* the loop over the slides; without remove_duplicates the list is returned
FillIn ==
    /\ fin_pc = "fill"
    /\ fin_slides' = [k \in 1..Len(fin_slides) |-> fill_in(fin_slides[k])]
    /\ IF remove_duplicates
       THEN fin_pc' = "dedup" /\ fin_result' = fin_result
       ELSE fin_pc' = "returned" /\ fin_result' = fin_slides'
    /\ UNCHANGED <<detect_vars, call_vars, time_vars, compare_vars, remove_duplicates, fin_input, unique_slides, fin_i>>

\* _remove_duplicate_slides on an empty list returns it
DedupEmpty ==
    /\ fin_pc = "dedup"
    /\ fin_slides = <<>>
    /\ fin_pc' = "returned"
    /\ fin_result' = fin_slides
    /\ UNCHANGED <<detect_vars, call_vars, time_vars, compare_vars, remove_duplicates, fin_input, fin_slides, unique_slides, fin_i>>

\* the first slide is always kept
KeepFirst ==
    /\ fin_pc = "dedup"
    /\ fin_slides # <<>>
    /\ fin_i = 0
    /\ unique_slides' = Append(unique_slides, fin_slides[1])
    /\ fin_i' = 1
    /\ UNCHANGED <<detect_vars, call_vars, time_vars, compare_vars, remove_duplicates, fin_pc, fin_input, fin_slides, fin_result>>

\* normalized text of the slide the loop is at, and of the last retained one
DedupCurrentText == normalize_text(fin_slides[fin_i + 1].extracted_text)
DedupPreviousText == normalize_text(unique_slides[Len(unique_slides)].extracted_text)

\* exact match of the normalized texts: the slide is dropped
ExactDuplicate ==
    /\ fin_pc = "dedup"
    /\ fin_i \in 1..(Len(fin_slides) - 1)
    /\ DedupCurrentText = DedupPreviousText
    /\ fin_i' = fin_i + 1
    /\ UNCHANGED <<detect_vars, call_vars, time_vars, compare_vars, remove_duplicates, fin_pc, fin_input, fin_slides,
                   unique_slides, fin_result>>

\* the normalized texts differ: the call of extract_meaningful_words on the
\* TextComparator, which has no such attribute, raises AttributeError, so the
\* word-overlap and edit-distance comparisons after it are never reached
MeaningfulWordsRaise ==
    /\ fin_pc = "dedup"
    /\ fin_i \in 1..(Len(fin_slides) - 1)
    /\ DedupCurrentText # DedupPreviousText
    /\ fin_pc' = "raised"
    /\ UNCHANGED <<detect_vars, call_vars, time_vars, compare_vars, remove_duplicates, fin_input, fin_slides,
                   unique_slides, fin_i, fin_result>>

\* the loop is over: unique_slides is returned
DedupReturn ==
    /\ fin_pc = "dedup"
    /\ fin_slides # <<>>
    /\ fin_i = Len(fin_slides)
    /\ fin_pc' = "returned"
    /\ fin_result' = unique_slides
    /\ UNCHANGED <<detect_vars, call_vars, time_vars, compare_vars, remove_duplicates, fin_input, fin_slides,
                   unique_slides, fin_i>>

FinalizeNext ==
    \/ FillIn
    \/ DedupEmpty
    \/ KeepFirst
    \/ ExactDuplicate
    \/ MeaningfulWordsRaise
    \/ DedupReturn

SpecFinalize == FinalizeInit /\ [][FinalizeNext]_vars

(***************************************************************************)
(* ms_to_timestamp and timestamp_to_ms                                     *)
(***************************************************************************)
\* whole seconds and sub-second milliseconds of the offsets converted
TimeSeconds == {0, 1, 5, 9, 10, 59, 60, 61, 65, 125, 599, 3599, 3600, 3661, 3665,
                35999, 36000, 86399, 359999, 360000}
TimeMillis == {0, 1, 500, 999}

TimeInit ==
    /\ DetectIdle /\ FinalizeIdle /\ CompareIdle /\ CallsIdle
    /\ time_pc = "format"
    /\ \E sec \in TimeSeconds, rest \in TimeMillis : time_ms = 1000 * sec + rest
    /\ time_stamp = None
    /\ time_back = None

FormatTimestamp ==
    /\ time_pc = "format"
    /\ time_stamp' = ms_to_timestamp(time_ms)
    /\ time_pc' = "parse"
    /\ UNCHANGED <<detect_vars, call_vars, finalize_vars, compare_vars, time_ms, time_back>>

ParseTimestamp ==
    /\ time_pc = "parse"
    /\ time_back' = timestamp_to_ms(time_stamp)
    /\ time_pc' = "done"
    /\ UNCHANGED <<detect_vars, call_vars, finalize_vars, compare_vars, time_ms, time_stamp>>

TimeNext == FormatTimestamp \/ ParseTimestamp

SpecTime == TimeInit /\ [][TimeNext]_vars

(***************************************************************************)
(* TextComparator.calculate_similarity on argument pairs                   *)
(***************************************************************************)
\* the texts compared: "", " ", "ab", "AB", "a b", "ab cd", "xy"
CompareTexts == {<<>>, <<" ">>, <<"a", "b">>, <<"A", "B">>, <<"a", " ", "b">>,
                 <<"a", "b", " ", "c", "d">>, <<"x", "y">>}
Methods == {"levenshtein", "tfidf", "hybrid"}

CompareInit ==
    /\ DetectIdle /\ FinalizeIdle /\ TimeIdle /\ CallsIdle
    /\ cmp_pc = "call"
    /\ cmp_text1 \in CompareTexts
    /\ cmp_text2 \in CompareTexts
    /\ cmp_method \in Methods
    /\ cmp_result = None

Compare ==
    /\ cmp_pc = "call"
    /\ cmp_result' = calculate_similarity(cmp_text1, cmp_text2, cmp_method)
    /\ cmp_pc' = "returned"
    /\ UNCHANGED <<detect_vars, call_vars, finalize_vars, time_vars, cmp_text1, cmp_text2, cmp_method>>

CompareNext == Compare

SpecCompare == CompareInit /\ [][CompareNext]_vars

(***************************************************************************)
(* TextComparator.calculate_similarity on texts of several tokens          *)
(***************************************************************************)
\* the texts compared: "", " ", "a b", "ab", "AB", "ab cd", "ab ab cd",
\* "ab cd cd ef xy"
ExactTexts == {<<>>, <<" ">>, <<"a", " ", "b">>, <<"a", "b">>, <<"A", "B">>,
               <<"a", "b", " ", "c", "d">>,
               <<"a", "b", " ", "a", "b", " ", "c", "d">>,
               <<"a", "b", " ", "c", "d", " ", "c", "d", " ", "e", "f", " ", "x", "y">>}

ExactInit ==
    /\ DetectIdle /\ FinalizeIdle /\ TimeIdle /\ CallsIdle
    /\ cmp_pc = "call"
    /\ cmp_text1 \in ExactTexts
    /\ cmp_text2 \in ExactTexts
    /\ cmp_method \in Methods
    /\ cmp_result = None

SpecExact == ExactInit /\ [][CompareNext]_vars

(***************************************************************************)
(* TextComparator.is_incremental_slide on argument pairs                   *)
(***************************************************************************)
\* a slide with one bullet, "Tab:\n- ab cd", and the same slide with a
\* second bullet, "Tab:\n- ab cd\n- ef cd"
OneBullet == <<"T", "a", "b", ":", "\n", "-", " ", "a", "b", " ", "c", "d">>
TwoBullets == OneBullet \o <<"\n", "-", " ", "e", "f", " ", "c", "d">>

\* the texts compared: "", " ", "ab", "AB", "ab cd", "cd  AB", "ab xy",
\* "ab cd ef", "abcd" and the two bulleted slides
IncrementalTexts == {<<>>, <<" ">>, <<"a", "b">>, <<"A", "B">>,
                     <<"a", "b", " ", "c", "d">>, <<"c", "d", " ", " ", "A", "B">>,
                     <<"a", "b", " ", "x", "y">>,
                     <<"a", "b", " ", "c", "d", " ", "e", "f">>,
                     <<"a", "b", "c", "d">>, OneBullet, TwoBullets}

\* the thresholds passed: 0.5, the default 0.7, 1.0
IncrementalThresholds == {500, IncrementalThreshold, One}

IncrementalInit ==
    /\ DetectIdle /\ FinalizeIdle /\ TimeIdle /\ CompareIdle /\ ExtractIdle /\ NormalizeIdle
    /\ TwiceIdle
    /\ inc_pc = "call"
    /\ inc_text1 \in IncrementalTexts
    /\ inc_text2 \in IncrementalTexts
    /\ inc_threshold \in IncrementalThresholds
    /\ inc_result = None

CallIsIncremental ==
    /\ inc_pc = "call"
    /\ inc_result' = is_incremental_slide(inc_text1, inc_text2, inc_threshold)
    /\ inc_pc' = "returned"
    /\ UNCHANGED <<detect_vars, finalize_vars, time_vars, compare_vars, extract_vars,
                   normalize_vars, twice_vars, inc_text1, inc_text2, inc_threshold>>

IncrementalNext == CallIsIncremental

SpecIncremental == IncrementalInit /\ [][IncrementalNext]_vars

(***************************************************************************)
(* extractor.extract_slides and run_pipeline.run_pipeline                  *)
(***************************************************************************)
\* the loop of _remove_duplicate_slides from slide number i on, unique being
\* the slides retained so far: [raised |-> FALSE, slides |-> the list
\* returned], or [raised |-> TRUE] where extract_meaningful_words is called
RECURSIVE DedupLoop(_, _, _)
DedupLoop(list, i, unique) ==
    IF i > Len(list) THEN [raised |-> FALSE, slides |-> unique]
    ELSE IF i = 1 THEN DedupLoop(list, 2, Append(unique, list[1]))
    ELSE IF normalize_text(list[i].extracted_text)
                = normalize_text(unique[Len(unique)].extracted_text)
    THEN DedupLoop(list, i + 1, unique)
    ELSE [raised |-> TRUE]

\* SlideDetector._remove_duplicate_slides
remove_duplicate_slides(list) ==
    IF list = <<>> THEN [raised |-> FALSE, slides |-> list]
    ELSE DedupLoop(list, 1, <<>>)

\* thresholds passed, in thousandths: -0.1, 0, 0.5, 1, 1.1
ConfigThresholds == {-100, 0, 500, One, 1100}
\* minimum durations passed, in seconds
ConfigDurations == {-1, 0, min_slide_duration}

Configs ==
    [text_similarity_threshold : ConfigThresholds,
     min_slide_duration : ConfigDurations,
     ocr_confidence_threshold : {-100, ocr_confidence_threshold, 1100}]

\* time between two sampled frames of the video, in ms
StreamIntervals == {1000, 3500}

\* what a direct call of extract_slides can find
DirectEnvs ==
    {e \in [video_exists : BOOLEAN, extension_ok : BOOLEAN, video_readable : BOOLEAN,
            tesseract_found : BOOLEAN, detect_raises : BOOLEAN, finalize_raises : BOOLEAN,
            transcribe_raises : {FALSE}, skip_extraction : {FALSE},
            interval_ms : StreamIntervals] :
        e.video_readable => e.video_exists}

\* what a run of the pipeline can find; the command line passes a video file
PipelineEnvs ==
    {e \in [video_exists : BOOLEAN, extension_ok : {TRUE}, video_readable : BOOLEAN,
            tesseract_found : BOOLEAN, detect_raises : BOOLEAN, finalize_raises : BOOLEAN,
            transcribe_raises : BOOLEAN, skip_extraction : BOOLEAN,
            interval_ms : StreamIntervals] :
        e.video_readable => e.video_exists}

\* the frames a readable video yields: two images of one slide
StreamVideo == <<"one_p", "one_q">>
StreamFrames == Len(StreamVideo)

\* detect_slides of a detector constructed with cfg (incremental_merge at its
\* default True) from frame number i of the video on, the frames interval ms
\* apart; st = [slides, current_slide, previous_text, previous_hash]
RECURSIVE DetectFrom(_, _, _, _, _)
DetectFrom(cfg, video, interval, i, st) ==
    IF i > Len(video)
    THEN IF /\ st.current_slide # None
            /\ st.current_slide.end_time_ms - st.current_slide.start_time_ms
                   >= 1000 * cfg.min_slide_duration
         THEN Append(st.slides, st.current_slide)
         ELSE st.slides
    ELSE LET f == video[i]
             t == (i - 1) * interval
             current_text == CurrentTextOf[f]
             confidence == extract_text_with_confidence(f).confidence
             hashed == [st EXCEPT !.previous_hash = ImageHash[f]]
             extended == Extend(st.current_slide, t)
             created == create_slide_entry(f, t, current_text, confidence)
             next ==
                 IF HashSkipped(st.previous_hash, f)
                 THEN [st EXCEPT !.current_slide = extended]
                 ELSE IF confidence < cfg.ocr_confidence_threshold \/ current_text = <<>>
                 THEN [hashed EXCEPT !.current_slide = extended]
                 ELSE IF st.previous_text = <<>>
                 THEN [hashed EXCEPT !.current_slide = created,
                                     !.previous_text = current_text]
                 ELSE IF /\ FLess(SimilarityOf[st.previous_text, current_text],
                                  Score(cfg.text_similarity_threshold))
                         /\ ~IsIncremental(TRUE, st.previous_text, current_text)
                 THEN [hashed EXCEPT
                          !.slides =
                              IF /\ st.current_slide # None
                                 /\ t - st.current_slide.start_time_ms
                                        >= 1000 * cfg.min_slide_duration
                              THEN Append(st.slides, extended)
                              ELSE st.slides,
                          !.current_slide = created,
                          !.previous_text = current_text]
                 ELSE IF st.current_slide = None THEN hashed
                 ELSE IF MoreComplete(TRUE, st.previous_text, current_text)
                 THEN [hashed EXCEPT
                          !.current_slide = [extended EXCEPT
                                                !.extracted_text = current_text,
                                                !.frame = f],
                          !.previous_text = current_text]
                 ELSE [hashed EXCEPT !.current_slide = extended]
         IN  DetectFrom(cfg, video, interval, i + 1, next)

\* finalize_slides (remove_duplicates at its default True) of the slides
\* detect_slides returns for the video
StreamFinalized(cfg, env) ==
    LET detected == DetectFrom(cfg, StreamVideo, env.interval_ms, 1,
                               [slides |-> <<>>, current_slide |-> None,
                                previous_text |-> <<>>, previous_hash |-> NoHash])
    IN  remove_duplicate_slides([k \in 1..Len(detected) |-> fill_in(detected[k])])

\* len(slides_metadata): one entry for each finalized slide
StreamSlides(cfg, env) == Len(StreamFinalized(cfg, env).slides)

ExtractFresh ==
    /\ video_opened = FALSE
    /\ frames_read = 0
    /\ ocr_attempts = 0
    /\ ext_error = "none"
    /\ ext_result = None
    /\ slides_result = None
    /\ pipe_result = None

ExtractInit ==
    /\ DetectIdle /\ FinalizeIdle /\ TimeIdle /\ CompareIdle /\ IncrementalIdle
    /\ NormalizeIdle /\ TwiceIdle
    /\ ExtractFresh
    /\ \/ /\ ext_pc = "validate"
          /\ pipe_pc = "idle"
          /\ ext_config \in Configs
          /\ ext_env \in DirectEnvs
       \/ /\ ext_pc = "idle"
          /\ pipe_pc = "start"
          /\ ext_config = DefaultConfig
          /\ ext_env \in PipelineEnvs

ExtractFrame == <<detect_vars, finalize_vars, time_vars, compare_vars, incremental_vars,
                  normalize_vars, twice_vars, ext_config, ext_env>>

\* extract_slides, lines 86-97: the checks made before the try block
ValidateInputs ==
    /\ ext_pc = "validate"
    /\ IF ~ext_env.video_exists
       THEN ext_pc' = "raised" /\ ext_error' = "FileNotFoundError"
       ELSE IF ~ext_env.extension_ok
       THEN ext_pc' = "raised" /\ ext_error' = "ValueError"
       ELSE IF ~(0 < ext_config.text_similarity_threshold
                  /\ ext_config.text_similarity_threshold <= One)
       THEN ext_pc' = "raised" /\ ext_error' = "ValueError"
       ELSE IF ext_config.min_slide_duration < 0
       THEN ext_pc' = "raised" /\ ext_error' = "ValueError"
       ELSE ext_pc' = "open" /\ ext_error' = "none"
    /\ UNCHANGED <<ExtractFrame, video_opened, frames_read, ocr_attempts, ext_result,
                   pipe_pc, slides_result, pipe_result>>

\* get_video_info and VideoProcessor.__init__: the video is opened; of a video
\* that cannot be read the frame rate is 0 and the duration cannot be computed
OpenVideo ==
    /\ ext_pc = "open"
    /\ video_opened' = TRUE
    /\ IF ext_env.video_readable
       THEN ext_pc' = "construct" /\ ext_error' = "none"
       ELSE ext_pc' = "except" /\ ext_error' = "ZeroDivisionError"
    /\ UNCHANGED <<ExtractFrame, frames_read, ocr_attempts, ext_result,
                   pipe_pc, slides_result, pipe_result>>

\* variant: the OCR engine is not looked for when it is constructed
ConstructDetector_Deferred ==
    /\ ext_pc = "construct"
    /\ ext_pc' = "detect"
    /\ ext_error' = "none"
    /\ UNCHANGED <<ExtractFrame, video_opened, frames_read, ocr_attempts, ext_result,
                   pipe_pc, slides_result, pipe_result>>

\* SlideDetector.__init__, which constructs the OCREngine: OCREngine.__init__
\* asks for the version of Tesseract and raises RuntimeError if that fails
ConstructDetector ==
    /\ ext_pc = "construct"
    /\ IF ext_env.tesseract_found
       THEN ext_pc' = "detect" /\ ext_error' = "none"
       ELSE ext_pc' = "except" /\ ext_error' = "RuntimeError"
    /\ UNCHANGED <<ExtractFrame, video_opened, frames_read, ocr_attempts, ext_result,
                   pipe_pc, slides_result, pipe_result>>

\* detect_slides: the frames are read and handed to the OCR engine; a failure
\* inside it comes with the first frame
DetectSlides ==
    /\ ext_pc = "detect"
    /\ IF ext_env.detect_raises
       THEN /\ frames_read' = 1
            /\ ocr_attempts' = 1
            /\ ext_pc' = "except"
            /\ ext_error' = "Exception"
       ELSE /\ frames_read' = StreamFrames
            /\ ocr_attempts' = StreamFrames
            /\ ext_pc' = "finalize"
            /\ ext_error' = "none"
    /\ UNCHANGED <<ExtractFrame, video_opened, ext_result, pipe_pc, slides_result, pipe_result>>

\* finalize_slides
FinalizeSlides ==
    /\ ext_pc = "finalize"
    /\ IF ext_env.finalize_raises \/ StreamFinalized(ext_config, ext_env).raised
       THEN ext_pc' = "except" /\ ext_error' = "Exception"
       ELSE ext_pc' = "save" /\ ext_error' = "none"
    /\ UNCHANGED <<ExtractFrame, video_opened, frames_read, ocr_attempts, ext_result,
                   pipe_pc, slides_result, pipe_result>>

\* the images and the metadata are saved and the success dictionary returned
SaveAndReturn ==
    /\ ext_pc = "save"
    /\ ext_result' = [status |-> "success",
                       slides_count |-> StreamSlides(ext_config, ext_env)]
    /\ ext_pc' = "returned"
    /\ UNCHANGED <<ExtractFrame, video_opened, frames_read, ocr_attempts, ext_error,
                   pipe_pc, slides_result, pipe_result>>

\* except Exception: the error dictionary is returned
ReturnError ==
    /\ ext_pc = "except"
    /\ ext_result' = [status |-> "error", slides_count |-> 0]
    /\ ext_pc' = "returned"
    /\ UNCHANGED <<ExtractFrame, video_opened, frames_read, ocr_attempts, ext_error,
                   pipe_pc, slides_result, pipe_result>>

\* run_pipeline, lines 208-250: the video must exist; the extraction is
\* skipped if asked for and the JSON files are there
PipelineStart ==
    /\ pipe_pc = "start"
    /\ IF ~ext_env.video_exists
       THEN /\ pipe_pc' = "raised"
            /\ UNCHANGED <<ext_pc, slides_result>>
       ELSE IF ext_env.skip_extraction
       THEN /\ pipe_pc' = "quizzes"
            /\ slides_result' = [status |-> "skipped"]
            /\ UNCHANGED ext_pc
       ELSE /\ pipe_pc' = "extracting"
            /\ ext_pc' = "validate"
            /\ UNCHANGED slides_result
    /\ UNCHANGED <<ExtractFrame, video_opened, frames_read, ocr_attempts, ext_error,
                   ext_result, pipe_result>>

\* run_pipeline.extract_slides returns the status and count it was given;
\* both extractions are then awaited, and a failed transcription is raised
PipelineExtracted ==
    /\ pipe_pc = "extracting"
    /\ ext_pc \in {"returned", "raised"}
    /\ IF ext_pc = "raised"
       THEN pipe_pc' = "raised" /\ UNCHANGED slides_result
       ELSE /\ slides_result' = [status |-> ext_result.status,
                                 slides_count |-> ext_result.slides_count]
            /\ pipe_pc' = IF ext_env.transcribe_raises THEN "raised" ELSE "quizzes"
    /\ UNCHANGED <<ExtractFrame, ext_pc, video_opened, frames_read, ocr_attempts, ext_error,
                   ext_result, pipe_result>>

\* run_pipeline, lines 262-298: generate_quizzes catches its failures, and the
\* dictionary returned has the status "success"
PipelineReturn ==
    /\ pipe_pc = "quizzes"
    /\ pipe_result' = [status |-> "success", slides |-> slides_result]
    /\ pipe_pc' = "returned"
    /\ UNCHANGED <<ExtractFrame, ext_pc, video_opened, frames_read, ocr_attempts, ext_error,
                   ext_result, slides_result>>

ExtractNext ==
    \/ ValidateInputs
    \/ OpenVideo
    \/ ConstructDetector
    \/ DetectSlides
    \/ FinalizeSlides
    \/ SaveAndReturn
    \/ ReturnError
    \/ PipelineStart
    \/ PipelineExtracted
    \/ PipelineReturn

SpecExtract == ExtractInit /\ [][ExtractNext]_vars

(***************************************************************************)
(* OCREngine.normalize_text on single texts                                *)
(***************************************************************************)
\* the text of test_text_normalization: "Hello WORLD!!! This is a TEST."
HelloWorld ==
    <<"H", "e", "l", "l", "o", " ", "W", "O", "R", "L", "D", "!", "!", "!", " ",
      "T", "h", "i", "s", " ", "i", "s", " ", "a", " ", "T", "E", "S", "T", ".">>

\* longest of the short texts normalized
MaxTextLen == 3

\* the characters of the short texts
NormalizeChars == {"a", "B", "1", " ", "\n", "!", ".", ":"}

NormalizeTexts ==
    {HelloWorld} \cup UNION {[1..n -> NormalizeChars] : n \in 0..MaxTextLen}

NormalizeInit ==
    /\ DetectIdle /\ FinalizeIdle /\ TimeIdle /\ CompareIdle /\ IncrementalIdle
    /\ ExtractIdle /\ TwiceIdle
    /\ norm_pc = "call"
    /\ norm_text \in NormalizeTexts
    /\ norm_result = None

CallNormalize ==
    /\ norm_pc = "call"
    /\ norm_result' = normalize_text(norm_text)
    /\ norm_pc' = "returned"
    /\ UNCHANGED <<detect_vars, finalize_vars, time_vars, compare_vars, incremental_vars,
                   extract_vars, twice_vars, norm_text>>

NormalizeNext == CallNormalize

SpecNormalize == NormalizeInit /\ [][NormalizeNext]_vars

(***************************************************************************)
(* _remove_duplicate_slides applied twice                                  *)
(***************************************************************************)
\* the lists passed: up to MaxSlides finalized slides of 3000 ms each
TwiceInputs ==
    UNION {{[k \in 1..n |-> fill_in(ClosedSlides(texts, [j \in 1..n |-> 3000], 0)[k])] :
               texts \in [1..n -> SlideTexts]} : n \in 0..MaxSlides}

TwiceInit ==
    /\ DetectIdle /\ FinalizeIdle /\ TimeIdle /\ CompareIdle /\ IncrementalIdle
    /\ ExtractIdle /\ NormalizeIdle
    /\ twice_pc = "first"
    /\ twice_input \in TwiceInputs
    /\ twice_first = None
    /\ twice_second = None

TwiceFrame == <<detect_vars, finalize_vars, time_vars, compare_vars, incremental_vars,
                extract_vars, normalize_vars, twice_input>>

\* the call on the list
FirstPass ==
    /\ twice_pc = "first"
    /\ LET out == remove_duplicate_slides(twice_input)
       IN  IF out.raised
           THEN twice_pc' = "raised" /\ twice_first' = twice_first
           ELSE twice_pc' = "second" /\ twice_first' = out.slides
    /\ UNCHANGED <<TwiceFrame, twice_second>>

\* the call on what the first call returned
SecondPass ==
    /\ twice_pc = "second"
    /\ LET out == remove_duplicate_slides(twice_first)
       IN  IF out.raised
           THEN twice_pc' = "raised" /\ twice_second' = twice_second
           ELSE twice_pc' = "returned" /\ twice_second' = out.slides
    /\ UNCHANGED <<TwiceFrame, twice_first>>

TwiceNext == FirstPass \/ SecondPass

SpecTwice == TwiceInit /\ [][TwiceNext]_vars

(***************************************************************************)
(* Properties of detect_slides                                             *)
(***************************************************************************)
\* this step consumed a frame
FrameTaken == frame_count' = frame_count + 1

\* the frame consumed by this step passes the hash filter and the OCR gate
AcceptedNow ==
    /\ FrameTaken
    /\ ~(previous_hash # NoHash /\ ImageHash[frame'] = previous_hash)
    /\ OcrConfidence[frame'] >= ocr_confidence_threshold
    /\ CurrentTextOf[frame'] # <<>>

\* the similarity and the incremental verdict of the consumed frame against
\* the reference text
SimNow == SimilarityOf[previous_text, CurrentTextOf[frame']]
IncrNow ==
    incremental_merge /\ is_incremental_slide(previous_text, CurrentTextOf[frame'], IncrementalThreshold)

Last(seq) == seq[Len(seq)]

\* C1: an accepted frame that arrives while a slide is open, with similarity
\* to the reference text below the threshold and not judged incremental,
\* closes the open slide at the frame's timestamp, appends it to the output
\* iff its duration is at least min_slide_duration, and opens a new slide
\* with start = end = the timestamp and the frame's text, which becomes the
\* reference text.
C1_BoundaryClosesAndOpens ==
    [][(/\ AcceptedNow
        /\ current_slide # None
        /\ FLess(SimNow, SimilarityThreshold)
        /\ ~IncrNow)
       => LET shut == [current_slide EXCEPT !.end_time_ms = timestamp_ms']
          IN  /\ slides' = IF (shut.end_time_ms - shut.start_time_ms) >= 1000 * min_slide_duration
                           THEN Append(slides, shut)
                           ELSE slides
              /\ current_slide' # None
              /\ current_slide'.start_time_ms = timestamp_ms'
              /\ current_slide'.end_time_ms = timestamp_ms'
              /\ current_slide'.extracted_text = CurrentTextOf[frame']
              /\ previous_text' = CurrentTextOf[frame']]_vars

\* a boundary has just appended the slide it closed and opened the next one
C1_Witness ==
    /\ branch = "boundary"
    /\ slides # <<>>
    /\ Last(slides) = closed
    /\ closed.end_time_ms = timestamp_ms
    /\ current_slide.start_time_ms = timestamp_ms
    /\ FLess(similarity, SimilarityThreshold)
    /\ ~is_incremental

\* C2: every slide of the output list lasts at least min_slide_duration
\* seconds, and a slide closed with a shorter span is not in the output.
C2_MinimumDuration ==
    /\ \A i \in 1..Len(slides) :
          slides[i].end_time_ms - slides[i].start_time_ms >= 1000 * min_slide_duration
    /\ (closed # None /\ closed.end_time_ms - closed.start_time_ms < 1000 * min_slide_duration)
          => \A i \in 1..Len(slides) : slides[i] # closed

\* a slide of 2000 ms has been closed and dropped, none is in the output
C2_Witness ==
    /\ closed # None
    /\ closed.end_time_ms - closed.start_time_ms = 2000
    /\ slides = <<>>

\* C3: with incremental_merge enabled, an accepted frame judged incremental
\* against the reference text causes no boundary, whatever its similarity:
\* nothing is appended, the open slide stays open and keeps its start.
C3_IncrementalNeverBoundary ==
    [][(/\ AcceptedNow
        /\ incremental_merge
        /\ current_slide # None
        /\ is_incremental_slide(previous_text, CurrentTextOf[frame'], IncrementalThreshold))
       => /\ slides' = slides
          /\ closed' = closed
          /\ current_slide' # None
          /\ current_slide'.start_time_ms = current_slide.start_time_ms
          /\ current_slide'.start_time = current_slide.start_time]_vars

\* an incremental frame whose similarity is below the threshold has just
\* continued the open slide
C3_Witness ==
    /\ branch = "continue"
    /\ incremental_merge
    /\ is_incremental
    /\ similarity # Unbound
    /\ FLess(similarity, SimilarityThreshold)
    /\ current_slide.start_time_ms < timestamp_ms
    /\ current_slide.frame = frame

\* C4: a frame with OCR confidence below the threshold or with empty cleaned
\* text changes at most the end time of the open slide: text, start, frame
\* and confidence of the open slide, the reference text and the output list
\* stay, the slide is not closed, and no slide is opened when none is open.
C4_NoiseOnlyExtends ==
    [][(/\ FrameTaken
        /\ \/ OcrConfidence[frame'] < ocr_confidence_threshold
           \/ CurrentTextOf[frame'] = <<>>)
       => /\ current_slide = None => current_slide' = None
          /\ current_slide # None =>
                current_slide' = [current_slide EXCEPT !.end_time_ms = timestamp_ms']
          /\ previous_text' = previous_text
          /\ slides' = slides
          /\ closed' = closed]_vars

\* a noise frame has just extended the open slide
C4_Witness ==
    /\ branch = "noise"
    /\ current_slide # None
    /\ current_slide.end_time_ms = timestamp_ms
    /\ current_slide.start_time_ms < timestamp_ms

\* C5: a frame whose hash equals that of the last frame that was not
\* hash-skipped causes no OCR call and changes nothing but the end time of
\* the open slide; reference text, previous hash and output list stay.
C5_HashSkipNoOcr ==
    [][(/\ FrameTaken
        /\ hash_frame # NoFrame
        /\ ImageHash[frame'] = ImageHash[hash_frame])
       => /\ ocr_calls' = ocr_calls
          /\ current_slide = None => current_slide' = None
          /\ current_slide # None =>
                current_slide' = [current_slide EXCEPT !.end_time_ms = timestamp_ms']
          /\ previous_text' = previous_text
          /\ previous_hash' = previous_hash
          /\ slides' = slides]_vars

\* a frame has just been hash-skipped while a slide was open
C5_Witness ==
    /\ branch = "hash_skip"
    /\ current_slide # None
    /\ current_slide.end_time_ms = timestamp_ms
    /\ current_slide.start_time_ms < timestamp_ms
    /\ ocr_calls < frame_count

\* start, end and text of each slide of a list
Spans(list) ==
    [i \in 1..Len(list) |->
        <<list[i].start_time_ms, list[i].end_time_ms, list[i].extracted_text>>]

\* C6: when every hash-skipped frame has the OCR result (text and
\* confidence) of the frame whose hash it repeats, the returned list has the
\* same slides (start, end, text) as a run that sends every frame through
\* OCR and the decision logic.
C6_HashFilterNoSemanticEffect ==
    (pc = "done" /\ same_ocr) => Spans(slides) = Spans(nofilter.slides)

\* a run that skipped at least one frame has returned slides
C6_Witness ==
    /\ pc = "done"
    /\ same_ocr
    /\ ocr_calls < frame_count
    /\ Len(slides) >= 1
    /\ Len(nofilter.slides) >= 1

\* C7: an accepted frame that continues the open slide moves its end time to
\* the frame's timestamp; text and frame of the slide and the reference text
\* become the frame's exactly when the frame is judged incremental and its
\* text is longer than the reference text, and stay otherwise.
C7_ContinueUpdatesOnGrowth ==
    [][(/\ AcceptedNow
        /\ current_slide # None
        /\ ~(FLess(SimNow, SimilarityThreshold) /\ ~IncrNow))
       => /\ current_slide' # None
          /\ current_slide'.end_time_ms = timestamp_ms'
          /\ current_slide'.start_time_ms = current_slide.start_time_ms
          /\ IF IncrNow /\ Len(CurrentTextOf[frame']) > Len(previous_text)
             THEN /\ current_slide'.extracted_text = CurrentTextOf[frame']
                  /\ current_slide'.frame = frame'
                  /\ previous_text' = CurrentTextOf[frame']
             ELSE /\ current_slide'.extracted_text = current_slide.extracted_text
                  /\ current_slide'.frame = current_slide.frame
                  /\ previous_text' = previous_text]_vars

\* the second frame has just replaced the text of the slide the first opened
C7_Witness ==
    /\ branch = "continue"
    /\ frame_count = 2
    /\ is_incremental
    /\ current_slide.start_time_ms = 0
    /\ current_slide.end_time_ms = timestamp_ms
    /\ current_slide.frame = frame
    /\ current_slide.extracted_text = CurrentTextOf[frame]
    /\ previous_text = CurrentTextOf[frame]

\* C8: the ocr_confidence of every emitted slide is the (rounded) confidence
\* of the frame whose text the slide carries.
C8_ConfidenceOfCarriedText ==
    \A i \in 1..Len(slides) :
        /\ slides[i].extracted_text = CurrentTextOf[slides[i].frame]
        /\ slides[i].ocr_confidence = Round2(OcrConfidence[slides[i].frame])

\* C9: at the end of the stream an open slide becomes the last element of
\* the returned list iff its duration is at least min_slide_duration and is
\* dropped otherwise; with no slide open the returned list is empty.
C9_FinalSlideGate ==
    [][(pc = "loop" /\ pc' = "done")
       => /\ current_slide = None => slides' = <<>>
          /\ (/\ current_slide # None
              /\ current_slide.end_time_ms - current_slide.start_time_ms
                    >= 1000 * min_slide_duration)
                => slides' = Append(slides, current_slide)
          /\ (/\ current_slide # None
              /\ current_slide.end_time_ms - current_slide.start_time_ms
                    < 1000 * min_slide_duration)
                => slides' = slides]_vars

\* the stream has ended and the open slide is the last returned slide, after
\* an earlier slide was returned too
C9_Witness ==
    /\ pc = "done"
    /\ current_slide # None
    /\ Len(slides) = 2
    /\ Last(slides) = current_slide
    /\ closed = current_slide

\* C10: the open slide and every emitted slide have end_time_ms >=
\* start_time_ms, and every emitted slide has non-empty text.
C10_SlideWellFormed ==
    /\ current_slide # None => current_slide.end_time_ms >= current_slide.start_time_ms
    /\ \A i \in 1..Len(slides) :
          /\ slides[i].end_time_ms >= slides[i].start_time_ms
          /\ slides[i].extracted_text # <<>>

\* a slide has been emitted and the open slide has been extended
C10_Witness ==
    /\ pc = "loop"
    /\ Len(slides) >= 1
    /\ current_slide # None
    /\ current_slide.end_time_ms > current_slide.start_time_ms

\* C11: a slide that has been appended to the output list is never changed
\* by a later frame: its start, end, text and confidence (the whole record)
\* stay, and the list only grows at its end.
C11_ClosedSlidesImmutable ==
    [][/\ Len(slides') >= Len(slides)
       /\ \A i \in 1..Len(slides) : slides'[i] = slides[i]]_vars

\* a frame has been handled after a slide was emitted, at a later timestamp
C11_Witness ==
    /\ pc = "loop"
    /\ Len(slides) >= 1
    /\ branch \in {"hash_skip", "noise", "continue"}
    /\ timestamp_ms > Last(slides).end_time_ms
    /\ current_slide.end_time_ms = timestamp_ms

\* C12: the output list is in chronological order without overlap: for
\* consecutive slides, start(i) < start(i+1) and end(i) <= start(i+1).
C12_ChronologicalNoOverlap ==
    \A i \in 1..(Len(slides) - 1) :
        /\ slides[i].start_time_ms < slides[i + 1].start_time_ms
        /\ slides[i].end_time_ms <= slides[i + 1].start_time_ms

\* two slides have been emitted, the second starting where the first ends
C12_Witness ==
    /\ Len(slides) = 2
    /\ slides[1].end_time_ms = slides[2].start_time_ms
    /\ slides[2].end_time_ms > slides[2].start_time_ms

\* C13: for the ten frames at 0, 1000, ..., 9000 ms, frames 0-4 reading
\* "Slide One" and frames 5-9 "Slide Two" with confidence 0.9, the returned
\* list is exactly two slides: 0-5000 ms and 5000-9000 ms.
C13_TwoSlideScenario ==
    pc = "done" =>
        Spans(slides) = << <<0, 5000, SlideOne>>, <<5000, 9000, SlideTwo>> >>

\* the ten frames have been consumed, some hash-skipped, and two slides returned
C13_Witness ==
    /\ pc = "done"
    /\ frame_count = ScenarioLength
    /\ ocr_calls < frame_count
    /\ Len(slides) = 2
    /\ slides[1].extracted_text = SlideOne
    /\ slides[2].extracted_text = SlideTwo

(***************************************************************************)
(* Properties of finalize_slides and the duplicate suppressor              *)
(***************************************************************************)
\* finalize_slides has ended, by a return or by an exception
FinalizeEnded == fin_pc \in {"returned", "raised"}

\* the suppressor ran on the list: finalize_slides ended with remove_duplicates
SuppressorEnded == FinalizeEnded /\ remove_duplicates

TextsOf(list) == [k \in 1..Len(list) |-> list[k].extracted_text]

\* two texts no rule of the suppressor can take for duplicates: different after
\* normalization, without a common word, edit-distance similarity at most 0.95
NotDuplicates(a, b) ==
    /\ normalize_text(a) # normalize_text(b)
    /\ WordSet(normalize_text(a)) \cap WordSet(normalize_text(b)) = {}
    /\ ~FLess(Score(950), levenshtein_similarity(normalize_text(a), normalize_text(b)))

\* out is in with some entries left out: same order, every entry unchanged
IsSubsequence(out, in) ==
    \E idx \in [1..Len(out) -> 1..Len(in)] :
        /\ \A k \in 1..(Len(out) - 1) : idx[k] < idx[k + 1]
        /\ \A k \in 1..Len(out) : out[k] = in[idx[k]]

\* C14: for A and B that are not duplicates of each other the suppressor
\* returns [A, B, A] with all three entries and [A, A, B] as [A, B].
C14_RevisitSurvives ==
    (SuppressorEnded /\ Len(fin_input) = 3) =>
        LET t == TextsOf(fin_input)
        IN  /\ (t[1] = t[3] /\ NotDuplicates(t[1], t[2]))
                   => (fin_pc = "returned" /\ fin_result = fin_slides)
            /\ (t[1] = t[2] /\ NotDuplicates(t[2], t[3]))
                   => (fin_pc = "returned"
                       /\ fin_result = <<fin_slides[1], fin_slides[3]>>)

\* C15: the suppressor's output is an order-preserving subsequence of its
\* input that starts with the input's first element (empty for empty input)
\* and whose entries are the input's entries unchanged.
C15_FilteringProjection ==
    SuppressorEnded =>
        /\ fin_pc = "returned"
        /\ IsSubsequence(fin_result, fin_slides)
        /\ fin_slides = <<>> => fin_result = <<>>
        /\ fin_slides # <<>> => (fin_result # <<>> /\ fin_result[1] = fin_slides[1])

\* C16: every decision of the suppressor completes without error, and a
\* slide whose normalized text equals that of the slide before it is not
\* among the retained slides.
C16_DecisionCompletes ==
    /\ fin_pc # "raised"
    /\ (fin_pc = "returned" /\ remove_duplicates) =>
           \A k \in 2..Len(fin_slides) :
               normalize_text(fin_slides[k].extracted_text)
                   = normalize_text(fin_slides[k - 1].extracted_text)
               => \A j \in 1..Len(fin_result) : fin_result[j] # fin_slides[k]

\* C17: the fill-in of finalize_slides keeps the number and order of the
\* slides, sets duration to (end_time_ms - start_time_ms) / 1000 and end_time
\* to the HH:MM:SS rendering of end_time_ms, and leaves start_time_ms,
\* end_time_ms and extracted_text as they were; without the duplicate
\* suppressor that list is what finalize_slides returns.
C17_FinalizeFillIn ==
    fin_pc \notin {"idle", "fill"} =>
        /\ Len(fin_slides) = Len(fin_input)
        /\ \A k \in 1..Len(fin_input) :
               /\ fin_slides[k].duration
                      = fin_input[k].end_time_ms - fin_input[k].start_time_ms
               /\ fin_slides[k].end_time = ms_to_timestamp(fin_input[k].end_time_ms)
               /\ fin_slides[k].start_time_ms = fin_input[k].start_time_ms
               /\ fin_slides[k].end_time_ms = fin_input[k].end_time_ms
               /\ fin_slides[k].extracted_text = fin_input[k].extracted_text
        /\ (fin_pc = "returned" /\ ~remove_duplicates) => fin_result = fin_slides

\* three slides, the first ending at 01:00:01 after 3 s, one lasting 4.5 s,
\* returned by finalize_slides without the duplicate suppressor
C17_Witness ==
    /\ fin_pc = "returned"
    /\ ~remove_duplicates
    /\ Len(fin_result) = 3
    /\ fin_input[1].end_time = <<"0", "0", ":", "5", "9", ":", "5", "8">>
    /\ fin_result[1].end_time = <<"0", "1", ":", "0", "0", ":", "0", "1">>
    /\ fin_result[1].duration = 3000
    /\ \E k \in 2..3 : fin_result[k].duration = 4500

\* C18: the round trip through ms_to_timestamp and timestamp_to_ms returns a
\* multiple of 1000 ms unchanged and any other offset rounded down to the
\* whole second, ms - (ms mod 1000).
C18_TimestampRoundTrip ==
    time_pc = "done" =>
        /\ time_ms % 1000 = 0 => time_back = time_ms
        /\ time_back = time_ms - (time_ms % 1000)

\* 1500 ms has gone through "00:00:01" and come back as 1000 ms
C18_Witness ==
    /\ time_pc = "done"
    /\ time_ms = 1500
    /\ time_stamp = <<"0", "0", ":", "0", "0", ":", "0", "1">>
    /\ time_back = 1000

\* C19: calculate_similarity returns 1.0 when both texts are empty and 0.0
\* when exactly one is, whatever the method and the order of the arguments.
C19_SimilarityOfEmptyTexts ==
    cmp_pc = "returned" =>
        /\ (cmp_text1 = <<>> /\ cmp_text2 = <<>>) => cmp_result = FOne
        /\ (cmp_text1 = <<>> /\ cmp_text2 # <<>>) => cmp_result = FZero
        /\ (cmp_text1 # <<>> /\ cmp_text2 = <<>>) => cmp_result = FZero

\* the comparison of the empty text with a blank one has returned 0.0
C19_Witness ==
    /\ cmp_pc = "returned"
    /\ cmp_text1 = <<>>
    /\ cmp_text2 = <<" ">>
    /\ cmp_method = "tfidf"
    /\ cmp_result = FZero

\* C20: similarity is reflexive: for every non-empty text t and every method,
\* calculate_similarity(t, t, method) returns exactly 1.0
C20_SimilarityReflexive ==
    (cmp_pc = "returned" /\ cmp_text1 = cmp_text2 /\ cmp_text1 # <<>>)
        => cmp_result = FOne

\* a text of two different words compared with itself by tfidf has been
\* scored 1.0000000000000002 = (2^52 + 1) * 2^-52
C20_ReflexiveAboveOne ==
    /\ cmp_pc = "returned"
    /\ cmp_text1 = <<"a", "b", " ", "c", "d">>
    /\ cmp_text2 = cmp_text1
    /\ cmp_method = "tfidf"
    /\ cmp_result = [m |-> <<1, 0, 0, 128>>, e |-> -52]

\* reflexive calls whose texts are one word, or have no word at all, return 1.0
C20_ReflexiveOneWord ==
    (cmp_pc = "returned" /\ cmp_text1 = cmp_text2 /\ cmp_text1 # <<>>
        /\ Cardinality(WordSet(cmp_text1)) <= 1)
        => cmp_result = FOne

\* C26: the segmenter starts with no slide open and stays so, emitting
\* nothing, until the first frame that passes the hash filter and the OCR
\* gate; that frame opens a slide with start = end = its timestamp and its
\* text as reference text; from then on a slide is open after every frame,
\* also after a short slide was dropped.
C26_IdleUntilFirstAccepted ==
    /\ current_slide = None
    /\ [][/\ (FrameTaken /\ current_slide = None) =>
               IF AcceptedNow
               THEN /\ current_slide' # None
                    /\ current_slide'.start_time_ms = timestamp_ms'
                    /\ current_slide'.end_time_ms = timestamp_ms'
                    /\ current_slide'.extracted_text = CurrentTextOf[frame']
                    /\ previous_text' = CurrentTextOf[frame']
                    /\ slides' = <<>>
               ELSE /\ current_slide' = None
                    /\ slides' = <<>>
          /\ current_slide # None => current_slide' # None]_vars

\* a slide too short to be kept has just been dropped at a boundary, and the
\* next slide is open
C26_Witness ==
    /\ branch = "boundary"
    /\ closed # None
    /\ ~LongEnough(closed)
    /\ slides = <<>>
    /\ current_slide # None
    /\ current_slide.start_time_ms = timestamp_ms

\* C27: whenever a slide is open after a frame with timestamp t has been
\* handled, whatever branch the frame took, the end time of the open slide is
\* t; so the last slide ends, at the end of the stream, at the timestamp of
\* the last frame.
C27_EndTimeFollowsFrames ==
    /\ (frame_count > 0 /\ current_slide # None) => current_slide.end_time_ms = timestamp_ms
    /\ (pc = "done" /\ closed # None) =>
           /\ closed.end_time_ms = (frame_count - 1) * interval_ms
           /\ LongEnough(closed) => Last(slides) = closed

\* the stream has ended on a rejected frame and the last slide, which ends at
\* that frame, is in the output
C27_Witness ==
    /\ pc = "done"
    /\ frame_count = MaxFrames
    /\ LowQuality(frame)
    /\ closed # None
    /\ slides # <<>>
    /\ Last(slides).end_time_ms = (MaxFrames - 1) * interval_ms

\* C28: the reference text is empty iff no slide is open, and when a slide is
\* open it is the text recorded in the open slide; so every similarity and
\* incremental verdict is computed against the open slide's text.
C28_ReferenceIsOpenSlideText ==
    /\ [](/\ previous_text = <<>> <=> current_slide = None
          /\ current_slide # None => previous_text = current_slide.extracted_text)
    /\ [][(AcceptedNow /\ current_slide # None) =>
              /\ similarity' = SimilarityOf[current_slide.extracted_text,
                                             CurrentTextOf[frame']]
              /\ is_incremental' =
                     (incremental_merge /\
                      is_incremental_slide(current_slide.extracted_text,
                                           CurrentTextOf[frame'], IncrementalThreshold))]_vars

\* a frame was compared with the text of the open slide, which is not the
\* text of the accepted frame before it
C28_Witness ==
    /\ branch = "continue"
    /\ current_slide # None
    /\ previous_text = current_slide.extracted_text
    /\ CurrentTextOf[frame] # previous_text
    /\ CurrentTextOf[current_slide.frame] = previous_text
    /\ current_slide.start_time_ms < timestamp_ms - interval_ms

\* C30: with incremental_merge disabled is_incremental_slide is never
\* consulted: an accepted frame causes a boundary iff the similarity of the
\* reference text and its text is below text_similarity_threshold, and the
\* text of every open and emitted slide is the text of the frame that opened
\* it.
C30_MergeDisabled ==
    /\ [](~incremental_merge =>
             /\ is_incremental = FALSE
             /\ current_slide # None =>
                    current_slide.extracted_text = CurrentTextOf[current_slide.frame]
             /\ \A i \in 1..Len(slides) :
                    slides[i].extracted_text = CurrentTextOf[slides[i].frame])
    /\ [][~incremental_merge =>
              /\ (AcceptedNow /\ current_slide # None) =>
                     ((slides' = CloseInto(slides, current_slide, timestamp_ms')
                         /\ current_slide'.start_time_ms = timestamp_ms')
                      <=> FLess(SimNow, SimilarityThreshold))
              /\ (current_slide # None /\ current_slide' # None
                    /\ current_slide'.start_time_ms = current_slide.start_time_ms) =>
                     /\ current_slide'.extracted_text = current_slide.extracted_text
                     /\ current_slide'.frame = current_slide.frame]_vars

\* with merging disabled a frame whose text contains the text of the open
\* slide has caused a boundary
C30_Witness ==
    /\ ~incremental_merge
    /\ branch = "boundary"
    /\ Contains(CurrentTextOf[frame], closed.extracted_text)
    /\ FLess(similarity, SimilarityThreshold)
    /\ current_slide.extracted_text = CurrentTextOf[frame]

(***************************************************************************)
(* Properties of is_incremental_slide                                      *)
(***************************************************************************)
\* the case-folded whitespace-separated words of s: the stretches without
\* whitespace that whitespace or an end of the text bounds on both sides
FoldedWords(s) ==
    {lower(SubSeq(s, i, j)) : <<i, j>> \in
        {p \in (1..Len(s)) \X (1..Len(s)) :
            /\ p[1] <= p[2]
            /\ \A k \in p[1]..p[2] : s[k] \notin Whitespace
            /\ p[1] = 1 \/ s[p[1] - 1] \in Whitespace
            /\ p[2] = Len(s) \/ s[p[2] + 1] \in Whitespace}}

\* earlier occurs in later as it stands
LiteralSubstring(earlier, later) ==
    \E i \in 1..(Len(later) + 1) :
        /\ i + Len(earlier) - 1 <= Len(later)
        /\ \A k \in 1..Len(earlier) : later[i + k - 1] = earlier[k]

\* C21: is_incremental_slide(earlier, later, threshold) is true exactly when
\* earlier is a literal substring of later, or earlier has a word and the
\* fraction of its case-folded distinct words found among later's words is
\* at least the threshold.
C21_IncrementalContract ==
    inc_pc = "returned" =>
        LET mine == FoldedWords(inc_text1)
            found == {w \in mine : w \in FoldedWords(inc_text2)}
        IN  inc_result <=>
                \/ LiteralSubstring(inc_text1, inc_text2)
                \/ /\ mine # {}
                   /\ One * Cardinality(found) >= inc_threshold * Cardinality(mine)

\* the slide with one bullet was found to be continued by the slide with two
C21_Witness ==
    /\ inc_pc = "returned"
    /\ inc_text1 = OneBullet
    /\ inc_text2 = TwoBullets
    /\ inc_threshold = IncrementalThreshold
    /\ inc_result = TRUE

(***************************************************************************)
(* Properties of extract_slides and run_pipeline                           *)
(***************************************************************************)
\* a threshold outside [0, 1] or a negative minimum duration
InvalidConfig(c) ==
    \/ c.text_similarity_threshold < 0 \/ c.text_similarity_threshold > One
    \/ c.ocr_confidence_threshold < 0 \/ c.ocr_confidence_threshold > One
    \/ c.min_slide_duration < 0

\* the call failed on its parameters with nothing opened or read
ConfigurationError ==
    /\ ext_pc = "raised"
    /\ ext_error = "ValueError"
    /\ ~video_opened
    /\ frames_read = 0
    /\ ocr_attempts = 0

\* C22: the configuration is validated before processing starts:
\* extract_slides on an existing video file fails with a configuration error,
\* with the video not opened and no frame processed, whenever a threshold lies
\* outside [0, 1] or the minimum duration is negative, and it accepts every
\* configuration whose thresholds lie inside [0, 1].
C22_ConfigValidated ==
    (ext_pc \notin {"idle", "validate"} /\ ext_env.video_exists /\ ext_env.extension_ok)
        => (ConfigurationError <=> InvalidConfig(ext_config))

\* an OCR confidence threshold of 1.1 was accepted and the video opened
C22_OutOfRangeAccepted ==
    /\ ext_pc = "construct"
    /\ video_opened
    /\ ext_config = [text_similarity_threshold |-> 500, min_slide_duration |-> 0,
                     ocr_confidence_threshold |-> 1100]

\* a text similarity threshold of 0 was rejected
C22_ZeroRejected ==
    /\ ConfigurationError
    /\ ext_env.video_exists /\ ext_env.extension_ok
    /\ ext_config = [text_similarity_threshold |-> 0, min_slide_duration |-> 0,
                     ocr_confidence_threshold |-> ocr_confidence_threshold]

\* what the code does validate: the text similarity threshold in (0, 1] and
\* the minimum duration, before the video is opened
C22_ValidatedPart ==
    (ext_pc \notin {"idle", "validate"} /\ ext_env.video_exists /\ ext_env.extension_ok)
        => (ConfigurationError <=>
               \/ ext_config.text_similarity_threshold <= 0
               \/ ext_config.text_similarity_threshold > One
               \/ ext_config.min_slide_duration < 0)

\* C23: if the OCR engine cannot be located, the failure is raised when the
\* OCR engine (and so the SlideDetector) is constructed: no frame has been
\* read and no OCR call attempted then, and detection is never entered.
C23_EngineFailureEager ==
    /\ ext_error = "RuntimeError" => (frames_read = 0 /\ ocr_attempts = 0)
    /\ ~ext_env.tesseract_found =>
           /\ frames_read = 0
           /\ ocr_attempts = 0
           /\ ext_pc \notin {"detect", "finalize", "save"}
           /\ ext_pc = "returned" => ext_result.status = "error"

\* the construction of the detector has raised for want of the OCR engine
C23_Witness ==
    /\ ext_pc = "except"
    /\ ext_error = "RuntimeError"
    /\ ~ext_env.tesseract_found
    /\ video_opened
    /\ frames_read = 0

\* C24: when slide extraction hits a fatal error during processing,
\* extract_slides returns status "error" with slides_count 0, and the result
\* of run_pipeline for that run does not have status "success".
C24_FatalErrorReported ==
    /\ (ext_pc = "returned" /\ ext_error # "none")
           => ext_result = [status |-> "error", slides_count |-> 0]
    /\ (pipe_pc = "returned" /\ ext_pc = "returned" /\ ext_error # "none")
           => pipe_result.status # "success"

\* the first half alone: a fatal error inside the try block is returned as
\* status "error" with slides_count 0
C24_ErrorStatusReturned ==
    (ext_pc = "returned" /\ ext_error # "none")
        => ext_result = [status |-> "error", slides_count |-> 0]

\* run_pipeline has returned "success" around a failed slide extraction
C24_SuccessDespiteError ==
    /\ pipe_pc = "returned"
    /\ ext_error = "RuntimeError"
    /\ slides_result = [status |-> "error", slides_count |-> 0]
    /\ pipe_result.status = "success"

(***************************************************************************)
(* Properties of normalize_text                                            *)
(***************************************************************************)
\* the text without its exclamation marks
WithoutExclamation(t) == SelectSeq(t, LAMBDA c : c # "!")

\* lower case only, single spaces as the only whitespace, none at the ends
LowerAndCollapsed(t) ==
    /\ \A i \in 1..Len(t) : t[i] \notin UpperLetters /\ t[i] \notin {"\n", "\t"}
    /\ \A i \in 1..(Len(t) - 1) : ~(t[i] = " " /\ t[i + 1] = " ")
    /\ t # <<>> => (t[1] # " " /\ t[Len(t)] # " ")

\* number of periods in the text
Periods(t) == Cardinality({i \in 1..Len(t) : t[i] = "."})

\* C25: normalize_text lower-cases the text, collapses every run of
\* whitespace to one space and removes special characters such as exclamation
\* marks while keeping sentence periods; "Hello WORLD!!! This is a TEST."
\* becomes "hello world this is a test.", and two texts that differ only in
\* such characters have the same normalized text.
C25_NormalizeText ==
    norm_pc = "returned" =>
        /\ LowerAndCollapsed(norm_result)
        /\ Periods(norm_result) = Periods(norm_text)
        /\ \A i \in 1..Len(norm_result) : norm_result[i] # "!"
        /\ norm_result = normalize_text(WithoutExclamation(norm_text))
        /\ norm_text = HelloWorld =>
               norm_result = <<"h", "e", "l", "l", "o", " ", "w", "o", "r", "l", "d", " ",
                               "t", "h", "i", "s", " ", "i", "s", " ", "a", " ",
                               "t", "e", "s", "t", ".">>

\* what normalize_text does do: lower case, whitespace collapsed, periods,
\* digits and exclamation marks kept, colons removed
C25_LowerCollapseKeep ==
    norm_pc = "returned" =>
        /\ LowerAndCollapsed(norm_result)
        /\ Periods(norm_result) = Periods(norm_text)
        /\ SelectSeq(norm_result, LAMBDA c : c \in DigitChars)
               = SelectSeq(norm_text, LAMBDA c : c \in DigitChars)
        /\ \A i \in 1..Len(norm_result) : norm_result[i] # ":"
        /\ Cardinality({i \in 1..Len(norm_result) : norm_result[i] = "!"})
               = Cardinality({i \in 1..Len(norm_text) : norm_text[i] = "!"})

\* the text of the test has been normalized with its exclamation marks kept
C25_ExclamationKept ==
    /\ norm_pc = "returned"
    /\ norm_text = HelloWorld
    /\ norm_result = <<"h", "e", "l", "l", "o", " ", "w", "o", "r", "l", "d", "!", "!", "!", " ",
                       "t", "h", "i", "s", " ", "i", "s", " ", "a", " ",
                       "t", "e", "s", "t", ".">>

(***************************************************************************)
(* Properties of _remove_duplicate_slides applied twice                    *)
(***************************************************************************)
\* C29: the duplicate suppressor is idempotent: for every input list it
\* returns a list in which no slide has the normalized text of the slide
\* before it, and applied to that list it returns it unchanged.
C29_SuppressorIdempotent ==
    /\ twice_pc # "raised"
    /\ twice_pc \in {"second", "returned"} =>
           \A k \in 2..Len(twice_first) :
               normalize_text(twice_first[k].extracted_text)
                   # normalize_text(twice_first[k - 1].extracted_text)
    /\ twice_pc = "returned" => twice_second = twice_first

\* where the first call returns, the second returns the same list
C29_IdempotentWhereReturned ==
    /\ twice_pc = "raised" => twice_first = None
    /\ twice_pc = "returned" => twice_second = twice_first

\* the first call has raised on the slides "ab", "xy"
C29_FirstCallRaised ==
    /\ twice_pc = "raised"
    /\ twice_first = None
    /\ TextsOf(twice_input) = << <<"a", "b">>, <<"x", "y">> >>


====
